---- MODULE Spec2Model ----
(***************************************************************************)
(* A model of ha-cleanup.py: the registry files of a Home Assistant        *)
(* configuration directory, the process-local JSON cache, the host         *)
(* process, and the cleanup / restore operations that the tool runs on     *)
(* them.                                                                   *)
(***************************************************************************)
EXTENDS Integers, Sequences, FiniteSets, TLC

VARIABLES
    files,      \* path -> [exists, text, doc, mtime]: the three registry files
    snapshots,  \* the "<path>.backup.<timestamp>" files of the storage directory
    tmp,        \* path -> whether save_json's temporary sibling file exists
    cache,      \* _json_cache: path -> NoEntry or [mtime, doc]
    defs,       \* definition ids found by get_automation_ids / script / scene
    haRunning,  \* whether the host application is running
    hostSaw,    \* what the host's last read of a registry file found
    now,        \* the wall clock, in ticks
    pc,         \* position of the tool's single thread of control
    calls,      \* number of menu choices taken so far
    bracket,    \* the handler in progress
    dry,        \* its dry_run argument
    ops,        \* the operations the handler has still to run
    stage,      \* cleanup_deleted_items: index of the registry it is at
    method,     \* what stop_ha returned in this handler
    acked,      \* the operator answered that the host was stopped by hand
    save,       \* the write in progress: [path, doc, count]
    local,      \* the restore functions' local variables
    exc,        \* the exception in flight while a finally block runs
    raised,     \* the exception the last step raised to its caller
    ret,        \* the value the last completed operation returned
    report,     \* what the last detection or dry run listed
    acted,      \* the candidates the last real run acted on
    expect,     \* what a dry run would have listed and returned where the
                \* real run in progress started
    opBackups,  \* the paths backup_file copied in the operation in progress
    startLog,   \* the tags start_ha was called with in this handler
    last        \* the step the tool took last

vars == <<files, snapshots, tmp, cache, defs, haRunning, hostSaw, now, pc,
          calls, bracket, dry, ops, stage, method, acked, save, local, exc,
          raised, ret, report, acted, expect, opBackups, startLog, last>>

-----------------------------------------------------------------------------
(* JSON values.  A key of an entity object is either missing (ABSENT), maps *)
(* to null (NULL), or maps to an identifier string.  The host writes        *)
(* references as null or as a non-empty identifier.                         *)

ABSENT == "<absent>"
NULL == "<null>"

\* dict.get(key): a missing key reads as None, like a present null
Get(e, k) == IF e[k] = ABSENT THEN NULL ELSE e[k]

\* dict.get(key, ''): a missing key reads as the empty string
GetStr(e, k) == IF e[k] = ABSENT THEN "" ELSE e[k]

\* Python truth of a value read with .get(): None is false, an id is true
Truthy(v) == v # NULL /\ v # ABSENT /\ v # ""

ENTITY_REGISTRY == "core.entity_registry"
DEVICE_REGISTRY == "core.device_registry"
CONFIG_ENTRIES == "core.config_entries"
RegistryPaths == {ENTITY_REGISTRY, DEVICE_REGISTRY, CONFIG_ENTRIES}

\* An entity id: the text before a trailing "_<digits>" and those digits
\* (<<>> when the id has no trailing numeric suffix).
EntityId(stem, suf) == [stem |-> stem, suf |-> suf]

Entity(eid, platform, device, config, unique, name) ==
    [entity_id |-> eid, platform |-> platform, device_id |-> device,
     config_entry_id |-> config, unique_id |-> unique,
     original_name |-> name, disabled_by |-> NULL]

\* A parsed registry document.  kind: which keys data has ("entity":
\* entities and deleted_entities, "device": devices and deleted_devices,
\* "config": entries); entities: data.entities; items: the ids of
\* data.devices or data.entries; deleted: data.deleted_entities or
\* data.deleted_devices.  A key the document lacks reads as the empty list;
\* a device or config entry record without its id key is ABSENT in items.
Doc(kind, entities, items, deleted) ==
    [kind |-> kind, entities |-> entities, items |-> items, deleted |-> deleted]

EntityDoc(entities, deleted) == Doc("entity", entities, <<>>, deleted)
DeviceDoc(ids, deleted) == Doc("device", <<>>, ids, deleted)
ConfigDoc(ids) == Doc("config", <<>>, ids, <<>>)
EmptyDoc == Doc("none", <<>>, <<>>, <<>>)

\* What a file holds: "json" is a well-formed document, "partial" a file cut
\* short while being written, "corrupt" text that is not JSON.
File(exists, text, doc, mtime) ==
    [exists |-> exists, text |-> text, doc |-> doc, mtime |-> mtime]

NoFile == File(FALSE, "json", EmptyDoc, 0)

NoEntry == [hit |-> FALSE, mtime |-> 0, doc |-> EmptyDoc]
CacheEntry(mtime, doc) == [hit |-> TRUE, mtime |-> mtime, doc |-> doc]

Range(s) == {s[i] : i \in 1..Len(s)}

-----------------------------------------------------------------------------
(* Registry Accessor: the read side.                                       *)

\* a cache that does not look at the file's mtime
_get_cached_json_any_mtime(fs, c, path) ==
    IF c[path].hit
    THEN [found |-> TRUE, doc |-> c[path].doc]
    ELSE [found |-> FALSE, doc |-> EmptyDoc]

\* a cache that answers a hit with an empty document
_get_cached_json_blank(fs, c, path) ==
    IF c[path].hit /\ fs[path].mtime = c[path].mtime
    THEN [found |-> TRUE, doc |-> EmptyDoc]
    ELSE [found |-> FALSE, doc |-> EmptyDoc]

\* _get_cached_json: the cached document, if the file's mtime is the cached one
_get_cached_json(fs, c, path) ==
    IF c[path].hit /\ fs[path].mtime = c[path].mtime
    THEN [found |-> TRUE, doc |-> c[path].doc]
    ELSE [found |-> FALSE, doc |-> EmptyDoc]

\* load_json(path): status "ok" with the document, "notfound" or "invalid";
\* cache is the cache after the call.
load_json(fs, c, path, use_cache) ==
    IF ~fs[path].exists
    THEN [status |-> "notfound", doc |-> EmptyDoc, cache |-> c]
    ELSE IF use_cache /\ _get_cached_json(fs, c, path).found
    THEN [status |-> "ok", doc |-> _get_cached_json(fs, c, path).doc, cache |-> c]
    ELSE IF fs[path].text # "json"
    THEN [status |-> "invalid", doc |-> EmptyDoc, cache |-> c]
    ELSE [status |-> "ok", doc |-> fs[path].doc,
          cache |-> IF use_cache
                    THEN [c EXCEPT ![path] = CacheEntry(fs[path].mtime, fs[path].doc)]
                    ELSE c]

-----------------------------------------------------------------------------
(* Orphan Detector.                                                        *)

DefinitionPlatforms == {"automation", "script", "scene"}

\* a lookup that takes the automation ids for every category
definition_ids_automation(d, platform) == d.automation

\* the definition ids of the entity's own category
definition_ids(d, platform) ==
    CASE platform = "automation" -> d.automation
      [] platform = "script" -> d.script
      [] platform = "scene" -> d.scene

\* is_orphan without the device check
is_orphan_config_only(entity, devices, config_entries, d) ==
    LET platform == GetStr(entity, "platform")
        config_entry_id == Get(entity, "config_entry_id")
        unique_id == Get(entity, "unique_id")
    IN  IF platform \in DefinitionPlatforms
        THEN IF Truthy(unique_id)
             THEN unique_id \notin definition_ids(d, platform)
             ELSE FALSE
        ELSE Truthy(config_entry_id) /\ config_entry_id \notin config_entries

\* is_orphan that judges a definition entity without unique id by its references
is_orphan_by_reference(entity, devices, config_entries, d) ==
    LET platform == GetStr(entity, "platform")
        device_id == Get(entity, "device_id")
        config_entry_id == Get(entity, "config_entry_id")
        unique_id == Get(entity, "unique_id")
        by_reference ==
            \/ Truthy(device_id) /\ device_id \notin devices
            \/ Truthy(config_entry_id) /\ config_entry_id \notin config_entries
    IN  IF platform \in DefinitionPlatforms /\ Truthy(unique_id)
        THEN unique_id \notin definition_ids(d, platform)
        ELSE by_reference

\* is_orphan without the config entry check
is_orphan_device_only(entity, devices, config_entries, d) ==
    LET platform == GetStr(entity, "platform")
        device_id == Get(entity, "device_id")
        unique_id == Get(entity, "unique_id")
    IN  IF platform \in DefinitionPlatforms
        THEN IF Truthy(unique_id)
             THEN unique_id \notin definition_ids(d, platform)
             ELSE FALSE
        ELSE Truthy(device_id) /\ device_id \notin devices

\* the body of the loop of find_orphaned_entities for one entity
is_orphan(entity, devices, config_entries, d) ==
    LET platform == GetStr(entity, "platform")
        device_id == Get(entity, "device_id")
        config_entry_id == Get(entity, "config_entry_id")
        unique_id == Get(entity, "unique_id")
        by_reference ==
            \/ Truthy(device_id) /\ device_id \notin devices
            \/ Truthy(config_entry_id) /\ config_entry_id \notin config_entries
    IN  IF platform \in DefinitionPlatforms
        THEN IF Truthy(unique_id)
             THEN unique_id \notin definition_ids(d, platform)
             ELSE FALSE
        ELSE by_reference

\* a triple that carries no entity id
orphan_triple_unnamed(entity) ==
    <<GetStr(entity, "platform"), EntityId("", <<>>), GetStr(entity, "original_name")>>

orphan_triple(entity) ==
    <<GetStr(entity, "platform"), entity.entity_id, GetStr(entity, "original_name")>>

\* find_orphaned_entities: the list of (platform, entity_id, name), the
\* cache as the three loads leave it, and the exception it raises, if any:
\* d["id"] and e["entry_id"] raise KeyError on a record without the key
find_orphaned_entities(fs, c, d) ==
    IF \E p \in RegistryPaths : ~fs[p].exists
    THEN [orphans |-> <<>>, cache |-> c, raised |-> "none"]
    ELSE
    LET l1 == load_json(fs, c, ENTITY_REGISTRY, TRUE)
        l2 == load_json(fs, l1.cache, DEVICE_REGISTRY, TRUE)
        l3 == load_json(fs, l2.cache, CONFIG_ENTRIES, TRUE)
    IN  IF l1.status # "ok" THEN [orphans |-> <<>>, cache |-> l1.cache, raised |-> "none"]
        ELSE IF l2.status # "ok" THEN [orphans |-> <<>>, cache |-> l2.cache, raised |-> "none"]
        ELSE IF l3.status # "ok" THEN [orphans |-> <<>>, cache |-> l3.cache, raised |-> "none"]
        ELSE IF ABSENT \in Range(l2.doc.items) \cup Range(l3.doc.items)
        THEN [orphans |-> <<>>, cache |-> l3.cache, raised |-> "KeyError"]
        ELSE
        LET devices == Range(l2.doc.items)
            config_entries == Range(l3.doc.items)
            hit == SelectSeq(l1.doc.entities,
                       LAMBDA e : is_orphan(e, devices, config_entries, d))
        IN  [orphans |-> [i \in 1..Len(hit) |-> orphan_triple(hit[i])],
             cache |-> l3.cache, raised |-> "none"]

-----------------------------------------------------------------------------
(* Time.  The clock counts ticks; a snapshot's name carries the second.    *)

BACKUP_RETENTION_DAYS == 7
HA_STOP_WAIT_SECONDS == 5
TicksPerSecond == 4
RetentionTicks == BACKUP_RETENTION_DAYS * 86400 * TicksPerSecond
StartOfRun == 10 * 86400 * TicksPerSecond

\* datetime.now().strftime('%Y%m%d_%H%M%S'): the clock cut to the second
Timestamp(t) == t \div TicksPerSecond

\* how long the tool may take to reach a backup_file call: under a second,
\* or a second
Elapse == {1, TicksPerSecond}

-----------------------------------------------------------------------------
(* Registry Accessor: backup.                                              *)

\* a copy that creates the file and writes nothing into it
Snapshot_empty(path, ts, f) ==
    [path |-> path, ts |-> ts, text |-> "json", doc |-> EmptyDoc, mtime |-> f.mtime]

Snapshot(path, ts, f) ==
    [path |-> path, ts |-> ts, text |-> f.text, doc |-> f.doc, mtime |-> f.mtime]

\* backup_file that swallows the failure of its copy
backup_file_swallows(fs, snaps, path, t, io_ok) ==
    IF ~fs[path].exists
    THEN [raised |-> "FileNotFoundError", snapshots |-> snaps, done |-> {}]
    ELSE IF ~io_ok
    THEN [raised |-> "none", snapshots |-> snaps, done |-> {}]
    ELSE [raised |-> "none",
          snapshots |-> {s \in snaps : ~(s.path = path /\ s.ts = Timestamp(t))}
                            \cup {Snapshot(path, Timestamp(t), fs[path])},
          done |-> {path}]

\* backup_file(path) at time t; io_ok: whether shutil.copy2 succeeds.
\* copy2 writes the file named by the timestamp, replacing one of that name,
\* and gives it the source's mtime.
backup_file(fs, snaps, path, t, io_ok) ==
    IF ~fs[path].exists
    THEN [raised |-> "FileNotFoundError", snapshots |-> snaps, done |-> {}]
    ELSE IF ~io_ok
    THEN [raised |-> "OSError", snapshots |-> snaps, done |-> {}]
    ELSE [raised |-> "none",
          snapshots |-> {s \in snaps : ~(s.path = path /\ s.ts = Timestamp(t))}
                            \cup {Snapshot(path, Timestamp(t), fs[path])},
          done |-> {path}]

\* A document handed out by load_json is the object the cache holds: a change
\* made to it in place is a change of the cache entry.
mutate_in_place(c, path, doc) ==
    IF c[path].hit THEN [c EXCEPT ![path].doc = doc] ELSE c

-----------------------------------------------------------------------------
(* Suffix Collision Detector.                                              *)

\* DUPLICATE_SUFFIX_PATTERN r'_([2-9]|\d{2,})$' on the digits after the
\* last underscore
DUPLICATE_SUFFIX_PATTERN(eid) ==
    \/ Len(eid.suf) = 1 /\ eid.suf[1] \in 2..9
    \/ Len(eid.suf) >= 2

\* a slice that cuts nothing off
strip_suffix_nothing(eid) == eid

\* entity_id[:-len(suffix)]
strip_suffix(eid) == EntityId(eid.stem, <<>>)

\* find_suffix_entities: the list of (old_id, new_id, platform), and the cache
find_suffix_entities(fs, c) ==
    IF ~fs[ENTITY_REGISTRY].exists
    THEN [candidates |-> <<>>, cache |-> c]
    ELSE
    LET l == load_json(fs, c, ENTITY_REGISTRY, TRUE)
    IN  IF l.status # "ok"
        THEN [candidates |-> <<>>, cache |-> l.cache]
        ELSE
        LET entities == l.doc.entities
            all_entity_ids == {entities[i].entity_id : i \in 1..Len(entities)}
            hit == SelectSeq(entities,
                       LAMBDA e : /\ DUPLICATE_SUFFIX_PATTERN(e.entity_id)
                                  /\ strip_suffix(e.entity_id) \notin all_entity_ids)
        IN  [candidates |-> [i \in 1..Len(hit) |->
                               <<hit[i].entity_id, strip_suffix(hit[i].entity_id),
                                 GetStr(hit[i], "platform")>>],
             cache |-> l.cache]

-----------------------------------------------------------------------------
(* Diff Engine.                                                            *)

EntityIds(entities) == {entities[i].entity_id : i \in 1..Len(entities)}

\* {e['entity_id']: e for e in entities}: the last entity of each id
by_entity_id(entities) ==
    [eid \in EntityIds(entities) |->
        entities[CHOOSE i \in 1..Len(entities) :
                    /\ entities[i].entity_id = eid
                    /\ \A j \in (i+1)..Len(entities) : entities[j].entity_id # eid]]

\* the entities compare_registries puts in diff.deleted; the list is built by
\* iterating a set, so it comes in any order
deleted_entities(backup_doc, current_doc) ==
    {by_entity_id(backup_doc.entities)[eid] :
        eid \in EntityIds(backup_doc.entities) \ EntityIds(current_doc.entities)}

\* a comparison that looks at the unique id too
attrs_to_compare_and_unique_id ==
    {"platform", "device_id", "config_entry_id", "original_name", "disabled_by",
     "unique_id"}

attrs_to_compare ==
    {"platform", "device_id", "config_entry_id", "original_name", "disabled_by"}

\* compare_registries(backup_data, current_data): the three lists of the
\* EntityDiff, each as the set of its members
compare_registries(backup_doc, current_doc) ==
    LET backup_entities == by_entity_id(backup_doc.entities)
        current_entities == by_entity_id(current_doc.entities)
        backup_ids == DOMAIN backup_entities
        current_ids == DOMAIN current_entities
    IN  [deleted |-> {backup_entities[eid] : eid \in backup_ids \ current_ids},
         new |-> {current_entities[eid] : eid \in current_ids \ backup_ids},
         modified |->
            {<<backup_entities[eid], current_entities[eid]>> :
                eid \in {x \in backup_ids \cap current_ids :
                            \E attr \in attrs_to_compare :
                               Get(backup_entities[x], attr)
                                  # Get(current_entities[x], attr)}}]

Orderings(S) ==
    {q \in [1..Cardinality(S) -> S] : \A i, j \in 1..Cardinality(S) : q[i] = q[j] => i = j}

\* a selection that takes every item
pick_all(items, indices) == items

\* [items[i - 1] for i in sorted(indices)]
pick(items, indices) ==
    LET keep == SelectSeq([i \in 1..Len(items) |-> i], LAMBDA i : i \in indices)
    IN  [k \in 1..Len(keep) |-> items[keep[k]]]

-----------------------------------------------------------------------------
(* Selection Parser.  A text is a sequence of characters.                  *)

DigitChars == {"0", "1", "2", "3", "4", "5", "6", "7", "8", "9"}

DigitValue(c) ==
    CASE c = "0" -> 0 [] c = "1" -> 1 [] c = "2" -> 2 [] c = "3" -> 3 [] c = "4" -> 4
      [] c = "5" -> 5 [] c = "6" -> 6 [] c = "7" -> 7 [] c = "8" -> 8 [] c = "9" -> 9

RECURSIVE DecimalValue(_)
DecimalValue(digits) ==
    IF digits = <<>> THEN 0
    ELSE 10 * DecimalValue(SubSeq(digits, 1, Len(digits) - 1))
            + DigitValue(digits[Len(digits)])

\* int(text): ok is false where Python raises ValueError
int(text) ==
    LET negative == text # <<>> /\ text[1] = "-"
        digits == IF negative THEN Tail(text) ELSE text
    IN  IF digits # <<>> /\ \A i \in 1..Len(digits) : digits[i] \in DigitChars
        THEN [ok |-> TRUE,
              value |-> IF negative THEN 0 - DecimalValue(digits) ELSE DecimalValue(digits)]
        ELSE [ok |-> FALSE, value |-> 0]

\* str.lower() on the letters of the special words
lower(text) ==
    [i \in 1..Len(text) |->
        CASE text[i] = "A" -> "a" [] text[i] = "L" -> "l" [] text[i] = "N" -> "n"
          [] text[i] = "O" -> "o" [] text[i] = "E" -> "e" [] text[i] = "Q" -> "q"
          [] OTHER -> text[i]]

\* str.strip()
RECURSIVE strip(_)
strip(text) ==
    IF text = <<>> THEN text
    ELSE IF Head(text) = " " THEN strip(Tail(text))
    ELSE IF text[Len(text)] = " " THEN strip(SubSeq(text, 1, Len(text) - 1))
    ELSE text

\* the index of the first sep in text, 0 when there is none
find(text, sep) ==
    IF \E i \in 1..Len(text) : text[i] = sep
    THEN CHOOSE i \in 1..Len(text) :
            text[i] = sep /\ \A j \in 1..(i - 1) : text[j] # sep
    ELSE 0

\* str.split(sep)
RECURSIVE split(_, _)
split(text, sep) ==
    IF find(text, sep) = 0 THEN <<text>>
    ELSE <<SubSeq(text, 1, find(text, sep) - 1)>>
            \o split(SubSeq(text, find(text, sep) + 1, Len(text)), sep)

\* a range that leaves its end out
range_indices_open(start, end) == start..(end - 1)

\* range(start, end + 1)
range_indices(start, end) == start..end

\* the body of the loop of parse_selection: what one part adds to indices
part_indices(part, max_num) ==
    IF part = <<>> THEN {}
    ELSE IF find(part, "-") # 0
    THEN LET start == int(SubSeq(part, 1, find(part, "-") - 1))
             end == int(SubSeq(part, find(part, "-") + 1, Len(part)))
         IN  IF start.ok /\ end.ok THEN range_indices(start.value, end.value) ELSE {}
    ELSE LET num == int(part)
         IN  IF num.ok /\ 1 <= num.value /\ num.value <= max_num
             THEN {num.value} ELSE {}

\* parse_selection(selection, max_num)
parse_selection(selection, max_num) ==
    LET stripped == lower(strip(selection))
        parts == split(SelectSeq(stripped, LAMBDA c : c # " "), ",")
        indices == UNION {part_indices(parts[k], max_num) : k \in 1..Len(parts)}
    IN  IF stripped \in {<<>>, <<"n", "o", "n", "e">>, <<"n">>, <<"q">>} THEN {}
        ELSE IF stripped = <<"a", "l", "l">> THEN 1..max_num
        ELSE {i \in indices : 1 <= i /\ i <= max_num}

-----------------------------------------------------------------------------
(* The operations, up to their first write.  Each yields what the call has *)
(* done so far: kind "return" (returned value), "raise" (raised exc),      *)
(* "save" (about to call save_json with save), "go" (a restore function    *)
(* about to stop the host), with the cache and snapshot files as the call  *)
(* leaves them.                                                            *)

NoSave == [path |-> "", doc |-> EmptyDoc, count |-> 0, mtime |-> 0]
NoSource == [path |-> "", ts |-> 0]
NoLocal ==
    [count |-> 0, selected |-> <<>>, current |-> EmptyDoc, source |-> NoSource,
     confirmed |-> FALSE, indices |-> {}]

Outcome(kind, value, e, c, snaps, backed, req, rep, act) ==
    [kind |-> kind, value |-> value, exc |-> e, cache |-> c, snapshots |-> snaps,
     backups |-> backed, save |-> req, report |-> rep, acted |-> act]

Returns(value, c, snaps, rep) ==
    Outcome("return", value, "none", c, snaps, {}, NoSave, rep, <<>>)

\* cleanup_orphaned_entities(dry_run)
cleanup_orphaned_entities(fs, snaps, c, d, t, io_ok, dry_run) ==
    LET found == find_orphaned_entities(fs, c, d)
        orphans == found.orphans
    IN  IF found.raised # "none"
        THEN Outcome("raise", 0, found.raised, found.cache, snaps, {}, NoSave, <<>>, <<>>)
        ELSE IF orphans = <<>> THEN Returns(0, found.cache, snaps, <<>>)
        ELSE IF dry_run THEN Returns(Len(orphans), found.cache, snaps, orphans)
        ELSE
        LET b == backup_file(fs, snaps, ENTITY_REGISTRY, t, io_ok)
        IN  IF b.raised # "none"
            THEN Outcome("raise", 0, b.raised, found.cache, b.snapshots, b.done,
                         NoSave, <<>>, <<>>)
            ELSE
            LET l == load_json(fs, found.cache, ENTITY_REGISTRY, TRUE)
                orphan_eids == {orphans[i][2] : i \in 1..Len(orphans)}
                kept == SelectSeq(l.doc.entities,
                            LAMBDA e : e.entity_id \notin orphan_eids)
                gone == SelectSeq(l.doc.entities,
                            LAMBDA e : e.entity_id \in orphan_eids)
                data == [l.doc EXCEPT !.entities = kept]
            IN  Outcome("save", 0, "none",
                        mutate_in_place(l.cache, ENTITY_REGISTRY, data),
                        b.snapshots, b.done,
                        [path |-> ENTITY_REGISTRY, doc |-> data,
                         count |-> Len(l.doc.entities) - Len(kept), mtime |-> 0],
                        <<>>, [i \in 1..Len(gone) |-> orphan_triple(gone[i])])

\* the registries cleanup_deleted_items goes through, and their keys
deleted_registries == <<ENTITY_REGISTRY, DEVICE_REGISTRY>>
deleted_keys == <<"deleted_entities", "deleted_devices">>

\* cleanup_deleted_items(dry_run): the pass of its loop for registry i.
\* kind "return" here means the pass is over without a write; value is n.
cleanup_deleted_items(fs, snaps, c, i, t, io_ok, dry_run) ==
    LET path == deleted_registries[i]
        l == load_json(fs, c, path, TRUE)
        n == Len(l.doc.deleted)
    IN  IF ~fs[path].exists THEN Returns(0, c, snaps, <<>>)
        ELSE IF l.status # "ok" THEN Returns(0, l.cache, snaps, <<>>)
        ELSE IF n = 0 THEN Returns(0, l.cache, snaps, <<>>)
        ELSE IF dry_run THEN Returns(n, l.cache, snaps, <<<<deleted_keys[i], n>>>>)
        ELSE
        LET b == backup_file(fs, snaps, path, t, io_ok)
            data == [l.doc EXCEPT !.deleted = <<>>]
        IN  IF b.raised # "none"
            THEN Outcome("raise", 0, b.raised, l.cache, b.snapshots, b.done,
                         NoSave, <<>>, <<>>)
            ELSE Outcome("save", n, "none", mutate_in_place(l.cache, path, data),
                         b.snapshots, b.done,
                         [path |-> path, doc |-> data, count |-> n, mtime |-> 0],
                         <<>>, <<<<deleted_keys[i], n>>>>)

\* the renaming loop of fix_entity_suffix
apply_fix_map(entities, selected_fixes) ==
    [i \in 1..Len(entities) |->
        IF \E k \in 1..Len(selected_fixes) : selected_fixes[k][1] = entities[i].entity_id
        THEN [entities[i] EXCEPT !.entity_id =
                 selected_fixes[CHOOSE k \in 1..Len(selected_fixes) :
                     /\ selected_fixes[k][1] = entities[i].entity_id
                     /\ \A j \in (k+1)..Len(selected_fixes) :
                           selected_fixes[j][1] # entities[i].entity_id][2]]
        ELSE entities[i]]

\* fix_entity_suffix(dry_run); indices: what parse_selection made of the
\* operator's input; confirmed: the answer to confirm_action
fix_entity_suffix(fs, snaps, c, indices, confirmed, t, io_ok, dry_run) ==
    LET found == find_suffix_entities(fs, c)
        candidates == found.candidates
        selected_fixes == pick(candidates, indices)
    IN  IF candidates = <<>> THEN Returns(0, found.cache, snaps, <<>>)
        ELSE IF dry_run THEN Returns(Len(candidates), found.cache, snaps, candidates)
        ELSE IF indices = {} THEN Returns(0, found.cache, snaps, <<>>)
        ELSE IF ~confirmed THEN Returns(0, found.cache, snaps, <<>>)
        ELSE
        LET b == backup_file(fs, snaps, ENTITY_REGISTRY, t, io_ok)
        IN  IF b.raised # "none"
            THEN Outcome("raise", 0, b.raised, found.cache, b.snapshots, b.done,
                         NoSave, <<>>, <<>>)
            ELSE
            LET l == load_json(fs, found.cache, ENTITY_REGISTRY, TRUE)
                data == [l.doc EXCEPT !.entities = apply_fix_map(l.doc.entities, selected_fixes)]
            IN  Outcome("save", 0, "none",
                        mutate_in_place(l.cache, ENTITY_REGISTRY, data),
                        b.snapshots, b.done,
                        [path |-> ENTITY_REGISTRY, doc |-> data,
                         count |-> Len(selected_fixes), mtime |-> 0],
                        <<>>, selected_fixes)

ENTITY_COUNT_DIFF_WARNING_THRESHOLD == 50

\* whether full_restore_registry prints the size warning:
\* abs(backup - current) / current * 100 > threshold, for current > 0
size_warning(backup_entity_count, current_entity_count) ==
    LET diff == IF backup_entity_count >= current_entity_count
                THEN backup_entity_count - current_entity_count
                ELSE current_entity_count - backup_entity_count
    IN  /\ current_entity_count > 0
        /\ diff * 100 > ENTITY_COUNT_DIFF_WARNING_THRESHOLD * current_entity_count

\* the name of a snapshot file
NameOf(snap) == [path |-> snap.path, ts |-> snap.ts]
SnapshotNamed(snaps, name) == CHOOSE x \in snaps : NameOf(x) = name

\* selective_restore_entities(backup_info, dry_run) up to the host stop.
\* order: diff.deleted as compare_registries listed it; kind "go" carries the
\* locals selected_entities and current_data.
selective_restore_entities(fs, c, snap, order, indices, confirmed, dry_run) ==
    LET current == load_json(fs, c, ENTITY_REGISTRY, TRUE)
        selected_entities == pick(order, indices)
    IN  IF snap.text # "json" THEN Returns(0, c, {}, <<>>)
        ELSE IF current.status # "ok" THEN Returns(0, current.cache, {}, <<>>)
        ELSE IF order = <<>> THEN Returns(0, current.cache, {}, <<>>)
        ELSE IF indices = {} THEN Returns(0, current.cache, {}, <<>>)
        ELSE IF dry_run
        THEN Returns(Len(selected_entities), current.cache, {}, selected_entities)
        ELSE IF ~confirmed THEN Returns(0, current.cache, {}, <<>>)
        ELSE Outcome("go", 0, "none", current.cache, {}, {}, NoSave, <<>>, <<>>)

\* a merge that puts the restored entities in front of the live ones
selective_restore_merge_in_front(fs, snaps, c, loc, t, io_ok) ==
    LET b == backup_file(fs, snaps, ENTITY_REGISTRY, t, io_ok)
        current_entity_ids == EntityIds(loc.current.entities)
        added == SelectSeq(loc.selected,
                     LAMBDA e : e.entity_id \notin current_entity_ids)
        data == [loc.current EXCEPT !.entities = added \o loc.current.entities]
    IN  IF b.raised # "none"
        THEN Outcome("raise", 0, b.raised, c, b.snapshots, b.done, NoSave, <<>>, <<>>)
        ELSE Outcome("save", 0, "none", mutate_in_place(c, ENTITY_REGISTRY, data),
                     b.snapshots, b.done,
                     [path |-> ENTITY_REGISTRY, doc |-> data, count |-> Len(added),
                      mtime |-> 0],
                     <<>>, added)

\* the try block of selective_restore_entities: backup, merge, save
selective_restore_merge(fs, snaps, c, loc, t, io_ok) ==
    LET b == backup_file(fs, snaps, ENTITY_REGISTRY, t, io_ok)
        current_entity_ids == EntityIds(loc.current.entities)
        added == SelectSeq(loc.selected,
                     LAMBDA e : e.entity_id \notin current_entity_ids)
        data == [loc.current EXCEPT !.entities = loc.current.entities \o added]
    IN  IF b.raised # "none"
        THEN Outcome("raise", 0, b.raised, c, b.snapshots, b.done, NoSave, <<>>, <<>>)
        ELSE Outcome("save", 0, "none", mutate_in_place(c, ENTITY_REGISTRY, data),
                     b.snapshots, b.done,
                     [path |-> ENTITY_REGISTRY, doc |-> data, count |-> Len(added),
                      mtime |-> 0],
                     <<>>, added)

\* a full restore that does not ask
full_restore_registry_unasked(fs, c, snap, confirmed, dry_run) ==
    LET current == load_json(fs, c, ENTITY_REGISTRY, TRUE)
        backup_entity_count == Len(snap.doc.entities)
    IN  IF snap.text # "json" THEN Returns(0, c, {}, <<>>)
        ELSE IF snap.doc.kind # "entity" THEN Returns(0, c, {}, <<>>)
        ELSE IF dry_run
        THEN Returns(backup_entity_count, current.cache, {}, snap.doc.entities)
        ELSE Outcome("go", backup_entity_count, "none", current.cache, {}, {},
                     NoSave, <<>>, <<>>)

\* full_restore_registry(backup_info, dry_run) up to the host stop
full_restore_registry(fs, c, snap, confirmed, dry_run) ==
    LET current == load_json(fs, c, ENTITY_REGISTRY, TRUE)
        backup_entity_count == Len(snap.doc.entities)
    IN  IF snap.text # "json" THEN Returns(0, c, {}, <<>>)
        ELSE IF snap.doc.kind # "entity" THEN Returns(0, c, {}, <<>>)
        ELSE IF dry_run
        THEN Returns(backup_entity_count, current.cache, {}, snap.doc.entities)
        ELSE IF ~confirmed THEN Returns(0, current.cache, {}, <<>>)
        ELSE Outcome("go", backup_entity_count, "none", current.cache, {}, {},
                     NoSave, <<>>, <<>>)

\* the try block of full_restore_registry up to shutil.copy2
full_restore_backup(fs, snaps, c, loc, t, io_ok) ==
    LET b == backup_file(fs, snaps, ENTITY_REGISTRY, t, io_ok)
    IN  IF b.raised # "none"
        THEN Outcome("raise", 0, b.raised, c, b.snapshots, b.done, NoSave, <<>>, <<>>)
        ELSE Outcome("copy", 0, "none", c, b.snapshots, b.done,
                     [path |-> ENTITY_REGISTRY, doc |-> EmptyDoc, count |-> loc.count,
                      mtime |-> 0],
                     <<>>, SnapshotNamed(b.snapshots, loc.source).doc.entities)

\* a glob that matches every file of the directory
glob_backup_any(name) == TRUE

\* STORAGE_PATH.glob("*.backup.*") on a file name, given as the path it was
\* made from and its ending: "" (a live file), "backup.stamp"
\* (.backup.YYYYMMDD_HHMMSS), "backup.text" (.backup.<other text>), "tmp"
\* (.tmp.<pid>), "bak" (.bak)
glob_backup(name) == name.ending \in {"backup.stamp", "backup.text"}

\* cleanup_old_backups on the whole storage directory.  storage: its files,
\* each [name, mtime]; stuck: the names whose unlink raises OSError.
cleanup_old_backups_storage(storage, t, stuck) ==
    LET cutoff == t - RetentionTicks
        files_to_remove == {f \in storage : glob_backup(f.name) /\ f.mtime < cutoff}
        unlinked == {f \in files_to_remove : f.name \notin stuck}
    IN  [storage |-> storage \ unlinked, removed |-> Cardinality(unlinked)]

\* cleanup_old_backups: the snapshot files left, and the number removed
cleanup_old_backups(snaps, t) ==
    LET cutoff == t - RetentionTicks
        files_to_remove == {x \in snaps : x.mtime < cutoff}
    IN  [snapshots |-> snaps \ files_to_remove, removed |-> Cardinality(files_to_remove)]

-----------------------------------------------------------------------------
(* Host process control.                                                   *)

StopResults == {"ha", "systemctl", "docker", "none"}

\* a prompt whose answer is not looked at
stop_phase_regardless(running, stopped, manual, by_hand) ==
    IF stopped # "none"
    THEN [go |-> TRUE, method |-> stopped, acked |-> FALSE, running |-> FALSE]
    ELSE [go |-> TRUE, method |-> "none", acked |-> FALSE, running |-> running]

\* stop_ha and the prompt that follows when it returns None.  stopped: the
\* method that worked, or "none"; manual: the operator's answer to "Please
\* stop HA manually. Continue when stopped?"; by_hand: whether the operator
\* stopped the host.
stop_phase(running, stopped, manual, by_hand) ==
    IF stopped # "none"
    THEN [go |-> TRUE, method |-> stopped, acked |-> FALSE, running |-> FALSE]
    ELSE IF ~manual
    THEN [go |-> FALSE, method |-> "none", acked |-> FALSE, running |-> running]
    ELSE [go |-> TRUE, method |-> "none", acked |-> TRUE, running |-> running /\ ~by_hand]

\* a finally block that does not call start_ha
start_calls_none(m) == <<>>

\* the finally block's start: start_ha(method) is called when method is set
start_calls(m) == IF m # "none" THEN <<m>> ELSE <<>>

\* start_ha(method); ok: whether the start command succeeds
start_ha(running, m, ok) == IF m # "none" /\ ok THEN TRUE ELSE running

-----------------------------------------------------------------------------
(* The tool as a state machine.                                            *)

MaxCalls == 1

EmptyCache == [p \in RegistryPaths |-> NoEntry]

\* invalidate_cache(path), invalidate_cache()
invalidate_cache(c, path) ==
    IF path = "all" THEN EmptyCache ELSE [c EXCEPT ![path] = NoEntry]

Note(step, fail, done) == [step |-> step, fail |-> fail, done |-> done]
NoExpect == [report |-> <<>>, ret |-> 0]

\* the entities of the fixtures
Power2 == Entity(EntityId("sensor.power", <<2>>), "mqtt", "d1", "c1", "p2", "Power")
Power3 == Entity(EntityId("sensor.power", <<3>>), "zha", "d1", NULL, "p3", "Power")
Temp == Entity(EntityId("sensor.temp", <<>>), "mqtt", "d2", "c1", "t1", "Temp")
Morning == Entity(EntityId("automation.morning", <<>>), "automation", NULL, NULL, "u1", ABSENT)

InitialRegistries == { <<Power2, Temp, Morning>>, <<Power2, Power3>>, <<Temp>> }
\* the snapshot files the storage directory starts with: none; a snapshot
\* of the entity registry; or that one with a snapshot of the device
\* registry, which has no data.entities, and one that is not JSON
InitialSnapshots ==
    { {},
      { Snapshot(ENTITY_REGISTRY, Timestamp(StartOfRun) - 3600,
                 File(TRUE, "json", EntityDoc(<<Temp, Morning, Power2>>, <<>>),
                      StartOfRun - 86400 * TicksPerSecond)) },
      { Snapshot(ENTITY_REGISTRY, Timestamp(StartOfRun) - 3600,
                 File(TRUE, "json", EntityDoc(<<Temp, Morning, Power2>>, <<>>),
                      StartOfRun - 86400 * TicksPerSecond)),
        Snapshot(DEVICE_REGISTRY, Timestamp(StartOfRun) - 3600,
                 File(TRUE, "json", DeviceDoc(<<"d1">>, <<"dev.gone">>),
                      StartOfRun - 86400 * TicksPerSecond)),
        Snapshot(ENTITY_REGISTRY, Timestamp(StartOfRun) - 7200,
                 File(TRUE, "corrupt", EmptyDoc,
                      StartOfRun - 86400 * TicksPerSecond)) } }

Init ==
    /\ \E entities \in InitialRegistries,
          deleted_entities_0 \in {<<>>, <<"sensor.gone">>},
          devices \in {<<"d1">>, <<"d1", "d2">>},
          deleted_devices_0 \in {<<>>, <<"dev.gone">>},
          age \in {1, RetentionTicks + 1} :
          files = [p \in RegistryPaths |->
                     CASE p = ENTITY_REGISTRY ->
                            File(TRUE, "json", EntityDoc(entities, deleted_entities_0),
                                 StartOfRun - age)
                       [] p = DEVICE_REGISTRY ->
                            File(TRUE, "json", DeviceDoc(devices, deleted_devices_0),
                                 StartOfRun - 2)
                       [] p = CONFIG_ENTRIES ->
                            File(TRUE, "json", ConfigDoc(<<"c1">>), StartOfRun - 3)]
    /\ snapshots \in InitialSnapshots
    /\ \E a \in {{}, {"u1"}} : defs = [automation |-> a, script |-> {}, scene |-> {}]
    /\ tmp = [p \in RegistryPaths |-> FALSE]
    /\ cache = EmptyCache
    /\ haRunning = TRUE
    /\ hostSaw = "json"
    /\ now = StartOfRun
    /\ pc = "menu"
    /\ calls = 0
    /\ bracket = "none"
    /\ dry = FALSE
    /\ ops = <<>>
    /\ stage = 1
    /\ method = "none"
    /\ acked = FALSE
    /\ save = NoSave
    /\ local = NoLocal
    /\ exc = "none"
    /\ raised = "none"
    /\ ret = 0
    /\ report = <<>>
    /\ acted = <<>>
    /\ expect = NoExpect
    /\ opBackups = {}
    /\ startLog = <<>>
    /\ last = Note("init", "none", FALSE)

\* a handler that is over before it stopped the host
BackToMenu(b, dry_run, value, rep, c, note) ==
    /\ pc' = "menu" /\ bracket' = b /\ dry' = dry_run /\ ops' = <<>> /\ stage' = 1
    /\ method' = "none" /\ acked' = FALSE /\ startLog' = <<>>
    /\ exc' = "none" /\ raised' = "none" /\ ret' = value
    /\ report' = IF dry_run THEN rep ELSE report
    /\ acted' = IF dry_run THEN acted ELSE <<>>
    /\ cache' = c /\ local' = NoLocal /\ save' = NoSave /\ opBackups' = {}
    /\ last' = note
    /\ UNCHANGED <<files, snapshots, tmp, defs, haRunning, hostSaw, now, expect>>

\* a handler that goes on to its operations; a real run has stopped the host
\* and slept HA_STOP_WAIT_SECONDS.  fs: the registry files as they are when
\* the host has stopped.
ProceedWith(b, dry_run, body, sp, c, loc, e, fs) ==
    /\ files' = fs
    /\ pc' = "ops" /\ bracket' = b /\ dry' = dry_run /\ ops' = body /\ stage' = 1
    /\ method' = sp.method /\ acked' = sp.acked /\ haRunning' = sp.running
    /\ startLog' = <<>> /\ exc' = "none" /\ raised' = "none"
    /\ cache' = c /\ local' = loc /\ save' = NoSave /\ opBackups' = {}
    /\ expect' = e
    /\ last' = Note("enter", "none", FALSE)
    /\ now' = IF dry_run THEN now ELSE now + HA_STOP_WAIT_SECONDS * TicksPerSecond
    /\ UNCHANGED <<snapshots, tmp, defs, hostSaw, ret, report, acted>>

Proceed(b, dry_run, body, sp, c, loc, e) == ProceedWith(b, dry_run, body, sp, c, loc, e, files)

\* a dry run that stops the host all the same
NotStopped_stops(running) ==
    [go |-> TRUE, method |-> "ha", acked |-> FALSE, running |-> FALSE]

NotStopped(running) == [go |-> TRUE, method |-> "none", acked |-> FALSE, running |-> running]

\* an operation returned: on to the next one, or out of the handler
AfterReturn ==
    /\ ops' = Tail(ops)
    /\ stage' = 1
    /\ exc' = "none"
    /\ pc' = IF Tail(ops) # <<>> THEN "ops" ELSE IF dry THEN "menu" ELSE "finally"

\* a loop without a try around the call of the operation
exception_caught_nowhere(b, op) == FALSE

\* where an exception raised by the running operation is handled:
\* run_with_ha_restart catches what one of its operations raises and goes on;
\* anything else reaches the finally block with the exception in flight
exception_caught(b, op) == b = "run" /\ op # "cleanup_old_backups"

AfterRaise(e) ==
    IF exception_caught(bracket, Head(ops))
    THEN /\ ops' = Tail(ops) /\ stage' = 1 /\ exc' = "none" /\ pc' = "ops"
    ELSE /\ ops' = <<>> /\ stage' = 1 /\ exc' = e /\ pc' = "finally"

\* what an operation did up to its first write becomes the tool's state
Apply(o, t, name) ==
    /\ cache' = o.cache /\ snapshots' = o.snapshots /\ opBackups' = o.backups
    /\ now' = IF o.kind = "return" THEN now ELSE t
    /\ report' = IF dry THEN o.report ELSE report
    /\ acted' = IF dry THEN acted ELSE o.acted
    /\ last' = Note(name,
                    IF o.kind # "raise" THEN "none"
                    ELSE IF o.exc = "KeyError" THEN "find_orphaned_entities"
                    ELSE "backup_file",
                    o.kind = "return")
    /\ IF o.kind = "return"
       THEN /\ ret' = o.value /\ raised' = "none" /\ save' = NoSave /\ AfterReturn
       ELSE IF o.kind = "raise"
       THEN /\ ret' = ret /\ raised' = o.exc /\ save' = NoSave /\ AfterRaise(o.exc)
       ELSE /\ ret' = ret /\ raised' = "none" /\ save' = o.save
            /\ pc' = IF o.kind = "save" THEN "save_tmp" ELSE "copy_open"
            /\ UNCHANGED <<ops, stage, exc>>

\* the operation lists interactive_menu passes to run_with_ha_restart
Operations ==
    { <<"cleanup_orphaned_entities", "cleanup_deleted_items", "purge_database">>,
      <<"cleanup_orphaned_entities">>, <<"cleanup_deleted_items">>,
      <<"purge_database">> }

\* run_with_ha_restart(operations, dry_run) up to its try block
Call_run_with_ha_restart ==
    /\ pc = "menu" /\ calls < MaxCalls
    /\ calls' = calls + 1
    /\ \E operations \in Operations, dry_run, answer, manual, by_hand \in BOOLEAN,
          stopped \in StopResults :
          LET sp == stop_phase(haRunning, stopped, manual, by_hand)
          IN  IF dry_run
              THEN Proceed("run", TRUE, operations, NotStopped(haRunning), cache,
                           NoLocal, expect)
              ELSE IF ~answer
              THEN BackToMenu("run", FALSE, ret, <<>>, cache,
                              Note("aborted", "none", FALSE))
              ELSE IF ~sp.go
              THEN BackToMenu("run", FALSE, ret, <<>>, cache,
                              Note("declined", "stop_ha", FALSE))
              ELSE Proceed("run", FALSE, operations \o <<"cleanup_old_backups">>,
                           sp, cache, NoLocal, expect)

\* menu choice d and main's --dry-run: the four previews
Call_preview ==
    /\ pc = "menu" /\ calls < MaxCalls
    /\ calls' = calls + 1
    /\ Proceed("preview", TRUE,
               <<"cleanup_orphaned_entities", "cleanup_deleted_items",
                 "purge_database", "fix_entity_suffix">>,
               NotStopped(haRunning), cache, NoLocal, expect)

\* menu choice 5 up to its try block
Call_suffix_fix ==
    /\ pc = "menu" /\ calls < MaxCalls
    /\ calls' = calls + 1
    /\ \E answer, manual, by_hand \in BOOLEAN, stopped \in StopResults :
          LET found == find_suffix_entities(files, cache)
              sp == stop_phase(haRunning, stopped, manual, by_hand)
          IN  IF found.candidates = <<>>
              THEN BackToMenu("suffix", FALSE, ret, <<>>, found.cache,
                              Note("nothing", "none", FALSE))
              ELSE IF ~answer
              THEN BackToMenu("suffix", FALSE, ret, <<>>, found.cache,
                              Note("aborted", "none", FALSE))
              ELSE IF ~sp.go
              THEN BackToMenu("suffix", FALSE, ret, <<>>, found.cache,
                              Note("declined", "stop_ha", FALSE))
              ELSE Proceed("suffix", FALSE, <<"fix_entity_suffix">>, sp,
                           found.cache, NoLocal, expect)

\* menu choice 6
Call_cleanup_old_backups ==
    /\ pc = "menu" /\ calls < MaxCalls
    /\ calls' = calls + 1
    /\ snapshots' = cleanup_old_backups(snapshots, now).snapshots
    /\ ret' = cleanup_old_backups(snapshots, now).removed
    /\ bracket' = "purge" /\ dry' = FALSE /\ method' = "none" /\ acked' = FALSE
    /\ startLog' = <<>> /\ raised' = "none" /\ opBackups' = {}
    /\ last' = Note("cleanup_old_backups", "none", TRUE)
    /\ UNCHANGED <<files, tmp, cache, defs, haRunning, hostSaw, now, pc, ops, stage,
                   save, local, exc, report, acted, expect>>

\* what the host, still running, has made of the entity registry between the
\* tool's load of it and the host's stop: it has registered an entity
host_rewrite(f, t) ==
    File(TRUE, "json",
         [f.doc EXCEPT !.entities =
             @ \o <<Entity(EntityId("light.hall", <<>>), "hue", "d1", "c1", "h1", "Hall")>>],
         t)

\* selective_restore_entities(backup_info, dry_run), called as restore_menu
\* calls it, up to its try block.  written: what the entity registry file may
\* hold when the host has stopped.
selective_restore_handler(written) ==
    /\ pc = "menu" /\ calls < MaxCalls
    /\ calls' = calls + 1
    /\ \E snap \in snapshots, dry_run, confirmed, manual, by_hand \in BOOLEAN,
          stopped \in StopResults, registry \in written :
          LET current == load_json(files, cache, ENTITY_REGISTRY, TRUE)
          IN  \E order \in Orderings(deleted_entities(snap.doc, current.doc)) :
              \E indices \in SUBSET (1..Len(order)) :
              LET o == selective_restore_entities(files, cache, snap, order, indices,
                                                  confirmed, dry_run)
                  d == selective_restore_entities(files, cache, snap, order, indices,
                                                  confirmed, TRUE)
                  sp == stop_phase(haRunning, stopped, manual, by_hand)
              IN  IF o.kind = "return"
                  THEN /\ registry = files[ENTITY_REGISTRY]
                       /\ BackToMenu("selective", dry_run, o.value, o.report,
                                     invalidate_cache(o.cache, "all"),
                                     Note("selective_restore_entities", "none", TRUE))
                  ELSE IF ~sp.go
                  THEN /\ registry = files[ENTITY_REGISTRY]
                       /\ BackToMenu("selective", FALSE, 0, <<>>,
                                     invalidate_cache(o.cache, "all"),
                                     Note("declined", "stop_ha", FALSE))
                  ELSE ProceedWith("selective", FALSE, <<"selective_restore_merge">>, sp,
                                   o.cache,
                                   [NoLocal EXCEPT !.selected = pick(order, indices),
                                                   !.current = current.doc,
                                                   !.confirmed = confirmed],
                                   [report |-> d.report, ret |-> d.value],
                                   [files EXCEPT ![ENTITY_REGISTRY] = registry])

\* the call with no write of the host in between
Call_selective_restore_entities ==
    /\ pc = "menu"
    /\ selective_restore_handler({files[ENTITY_REGISTRY]})

\* the call with the host writing the entity registry after the tool loaded it
Call_selective_restore_entities_host_writes ==
    /\ haRunning
    /\ selective_restore_handler({host_rewrite(files[ENTITY_REGISTRY], now)})

\* full_restore_registry(backup_info, dry_run), called as restore_menu calls
\* it, up to its try block
Call_full_restore_registry ==
    /\ pc = "menu" /\ calls < MaxCalls
    /\ calls' = calls + 1
    /\ \E snap \in snapshots, dry_run, confirmed, manual, by_hand \in BOOLEAN,
          stopped \in StopResults :
          LET o == full_restore_registry(files, cache, snap, confirmed, dry_run)
              d == full_restore_registry(files, cache, snap, confirmed, TRUE)
              sp == stop_phase(haRunning, stopped, manual, by_hand)
          IN  IF o.kind = "return"
              THEN BackToMenu("full", dry_run, o.value, o.report,
                              invalidate_cache(o.cache, "all"),
                              Note("full_restore_registry", "none", TRUE))
              ELSE IF ~sp.go
              THEN BackToMenu("full", FALSE, 0, <<>>,
                              invalidate_cache(o.cache, "all"),
                              Note("declined", "stop_ha", FALSE))
              ELSE Proceed("full", FALSE, <<"full_restore_backup">>, sp, o.cache,
                           [NoLocal EXCEPT !.count = o.value, !.source = NameOf(snap),
                                           !.confirmed = confirmed],
                           [report |-> d.report, ret |-> d.value])

Running(name) == pc = "ops" /\ ops # <<>> /\ Head(ops) = name

HandlerFrame == UNCHANGED <<files, tmp, defs, haRunning, hostSaw, calls, bracket, dry,
                            method, acked, startLog>>

Run_cleanup_orphaned_entities ==
    /\ Running("cleanup_orphaned_entities")
    /\ \E dt \in Elapse, io_ok \in BOOLEAN :
          LET o == cleanup_orphaned_entities(files, snapshots, cache, defs, now + dt,
                                             io_ok, dry)
              d == cleanup_orphaned_entities(files, snapshots, cache, defs, now + dt,
                                             io_ok, TRUE)
          IN  /\ Apply(o, now + dt, "cleanup_orphaned_entities")
              /\ expect' = IF dry THEN expect ELSE [report |-> d.report, ret |-> d.value]
    /\ UNCHANGED local
    /\ HandlerFrame

\* what cleanup_deleted_items(dry_run=True) lists and returns
cleanup_deleted_items_preview(fs, snaps, c) ==
    LET o1 == cleanup_deleted_items(fs, snaps, c, 1, 0, TRUE, TRUE)
        o2 == cleanup_deleted_items(fs, snaps, o1.cache, 2, 0, TRUE, TRUE)
    IN  [report |-> o1.report \o o2.report, ret |-> o1.value + o2.value]

\* one pass of the loop of cleanup_deleted_items
Run_cleanup_deleted_items ==
    /\ Running("cleanup_deleted_items")
    /\ \E dt \in Elapse, io_ok \in BOOLEAN :
          LET o == cleanup_deleted_items(files, snapshots, cache, stage, now + dt,
                                         io_ok, dry)
              count == (IF stage = 1 THEN 0 ELSE local.count) + o.value
              more == stage < Len(deleted_registries)
          IN  /\ cache' = o.cache /\ snapshots' = o.snapshots
              /\ opBackups' = IF stage = 1 THEN o.backups ELSE opBackups \cup o.backups
              /\ now' = IF o.kind = "return" THEN now ELSE now + dt
              /\ local' = [local EXCEPT !.count = count]
              /\ report' = IF dry THEN (IF stage = 1 THEN <<>> ELSE report) \o o.report
                           ELSE report
              /\ acted' = IF dry THEN acted
                          ELSE (IF stage = 1 THEN <<>> ELSE acted) \o o.acted
              /\ expect' = IF dry \/ stage # 1 THEN expect
                           ELSE cleanup_deleted_items_preview(files, snapshots, cache)
              /\ last' = Note("cleanup_deleted_items",
                              IF o.kind = "raise" THEN "backup_file" ELSE "none",
                              o.kind = "return" /\ ~more)
              /\ IF o.kind = "return" /\ more
                 THEN /\ stage' = stage + 1 /\ raised' = "none" /\ save' = NoSave
                      /\ UNCHANGED <<pc, ops, exc, ret>>
                 ELSE IF o.kind = "return"
                 THEN /\ ret' = count /\ raised' = "none" /\ save' = NoSave /\ AfterReturn
                 ELSE IF o.kind = "raise"
                 THEN /\ ret' = ret /\ raised' = o.exc /\ save' = NoSave
                      /\ AfterRaise(o.exc)
                 ELSE /\ ret' = ret /\ raised' = "none" /\ save' = o.save
                      /\ pc' = "save_tmp"
                      /\ UNCHANGED <<ops, stage, exc>>
    /\ HandlerFrame

\* purge_database works on the recorder database alone
Run_purge_database ==
    /\ Running("purge_database")
    /\ ret' = 0 /\ raised' = "none" /\ opBackups' = {}
    /\ AfterReturn
    /\ last' = Note("purge_database", "none", TRUE)
    /\ UNCHANGED <<snapshots, cache, now, save, local, report, acted, expect>>
    /\ HandlerFrame

Run_fix_entity_suffix ==
    /\ Running("fix_entity_suffix")
    /\ \E dt \in Elapse, io_ok, confirmed \in BOOLEAN :
       \E indices \in SUBSET (1..Len(find_suffix_entities(files, cache).candidates)) :
          LET o == fix_entity_suffix(files, snapshots, cache, indices, confirmed,
                                     now + dt, io_ok, dry)
              d == fix_entity_suffix(files, snapshots, cache, indices, confirmed,
                                     now + dt, io_ok, TRUE)
          IN  /\ Apply(o, now + dt, "fix_entity_suffix")
              /\ expect' = IF dry THEN expect ELSE [report |-> d.report, ret |-> d.value]
              /\ local' = IF dry THEN local
                          ELSE [local EXCEPT !.indices = indices,
                                             !.confirmed = indices # {} /\ confirmed]
    /\ HandlerFrame

\* the purge at the end of run_with_ha_restart's try block
Run_cleanup_old_backups ==
    /\ Running("cleanup_old_backups")
    /\ snapshots' = cleanup_old_backups(snapshots, now).snapshots
    /\ ret' = cleanup_old_backups(snapshots, now).removed
    /\ raised' = "none"
    /\ AfterReturn
    /\ last' = Note("cleanup_old_backups", "none", TRUE)
    /\ UNCHANGED <<cache, now, save, local, report, acted, expect, opBackups>>
    /\ HandlerFrame

Run_selective_restore_merge ==
    /\ Running("selective_restore_merge")
    /\ \E dt \in Elapse, io_ok \in BOOLEAN :
          Apply(selective_restore_merge(files, snapshots, cache, local, now + dt, io_ok),
                now + dt, "selective_restore_entities")
    /\ UNCHANGED <<local, expect>>
    /\ HandlerFrame

Run_full_restore_backup ==
    /\ Running("full_restore_backup")
    /\ \E dt \in Elapse, io_ok \in BOOLEAN :
          Apply(full_restore_backup(files, snapshots, cache, local, now + dt, io_ok),
                now + dt, "full_restore_registry")
    /\ UNCHANGED <<local, expect>>
    /\ HandlerFrame

-----------------------------------------------------------------------------
(* Registry Accessor: the write side.  save_json runs in two steps, so that *)
(* the host can read between them: the temporary file is opened, then it    *)
(* is written and renamed over the target.                                 *)

\* the steps of save_json after open() that can raise
SaveFaults == {"lock", "dump", "flush", "fsync", "replace"}

\* an except block that leaves the temporary file where it is
save_json_except_keeps(t, path) == t

\* the except block of save_json: the temporary file, if it exists, is removed
save_json_except(t, path) == [t EXCEPT ![path] = FALSE]

SaveFrame == UNCHANGED <<snapshots, defs, haRunning, hostSaw, calls, bracket, dry,
                         method, acked, local, report, acted, expect, opBackups,
                         startLog>>

\* save_json raised ValueError to the operation, which lets it through
save_json_raises ==
    /\ raised' = "ValueError"
    /\ save' = NoSave
    /\ ret' = ret
    /\ AfterRaise("ValueError")

\* open(temp_path, 'w'); ok: whether it succeeds
save_json_open ==
    /\ pc = "save_tmp"
    /\ \E ok \in BOOLEAN :
          IF ok
          THEN /\ tmp' = [tmp EXCEPT ![save.path] = TRUE]
               /\ save' = [save EXCEPT !.mtime = now + 1]
               /\ now' = now + 1
               /\ pc' = "save_write"
               /\ last' = Note("save_json", "none", FALSE)
               /\ UNCHANGED <<ops, stage, exc, raised, ret>>
          ELSE /\ tmp' = save_json_except(tmp, save.path)
               /\ now' = now
               /\ last' = Note("save_json", "open", FALSE)
               /\ save_json_raises
    /\ UNCHANGED <<files, cache>>
    /\ SaveFrame

\* the rest of save_json: lock, dump, flush, fsync, replace, invalidate_cache
save_json_write ==
    /\ pc = "save_write"
    /\ \E fault \in SaveFaults \cup {"none"} :
          IF fault = "none"
          THEN /\ files' = [files EXCEPT ![save.path] =
                               File(TRUE, "json", save.doc, save.mtime)]
               /\ tmp' = [tmp EXCEPT ![save.path] = FALSE]
               /\ cache' = invalidate_cache(cache, save.path)
               /\ raised' = "none"
               /\ save' = NoSave
               /\ last' = Note("save_json", "none",
                               ~(Head(ops) = "cleanup_deleted_items"
                                 /\ stage < Len(deleted_registries)))
               /\ IF Head(ops) = "cleanup_deleted_items" /\ stage < Len(deleted_registries)
                  THEN /\ stage' = stage + 1 /\ pc' = "ops"
                       /\ UNCHANGED <<ops, exc, ret>>
                  ELSE /\ ret' = IF Head(ops) = "cleanup_deleted_items"
                                 THEN local.count ELSE save.count
                       /\ AfterReturn
          ELSE /\ tmp' = save_json_except(tmp, save.path)
               /\ last' = Note("save_json", fault, FALSE)
               /\ save_json_raises
               /\ UNCHANGED <<files, cache>>
    /\ now' = now
    /\ SaveFrame

\* shutil.copy2(backup_info.path, ENTITY_REGISTRY), first half: the target is
\* opened for writing, which empties it
copy2_open ==
    /\ pc = "copy_open"
    /\ \E ok \in BOOLEAN :
          IF ok
          THEN /\ files' = [files EXCEPT ![save.path] =
                               File(TRUE, "partial", EmptyDoc, now + 1)]
               /\ now' = now + 1
               /\ pc' = "copy_write"
               /\ last' = Note("copy2", "none", FALSE)
               /\ UNCHANGED <<ops, stage, exc, raised, ret, save>>
          ELSE /\ files' = files /\ now' = now
               /\ last' = Note("copy2", "open", FALSE)
               /\ raised' = "OSError" /\ save' = NoSave /\ ret' = ret
               /\ AfterRaise("OSError")
    /\ UNCHANGED <<tmp, cache>>
    /\ SaveFrame

\* shutil.copy2, second half: the content is copied, then the source's
\* modification time
copy2_write ==
    /\ pc = "copy_write"
    /\ \E ok \in BOOLEAN :
          IF ok
          THEN LET src == SnapshotNamed(snapshots, local.source)
               IN  /\ files' = [files EXCEPT ![save.path] =
                                   File(TRUE, src.text, src.doc, src.mtime)]
                   /\ last' = Note("copy2", "none", TRUE)
                   /\ raised' = "none" /\ save' = NoSave /\ ret' = save.count
                   /\ AfterReturn
          ELSE /\ files' = files
               /\ last' = Note("copy2", "write", FALSE)
               /\ raised' = "OSError" /\ save' = NoSave /\ ret' = ret
               /\ AfterRaise("OSError")
    /\ now' = now
    /\ UNCHANGED <<tmp, cache>>
    /\ SaveFrame

\* whether the caller of the handler catches the exception in flight:
\* restore_menu catches ValueError around the two restore functions
caller_catches(b, e) == b \in {"selective", "full"} /\ e = "ValueError"

\* the finally block of the handler, and the handler's return to its caller.
\* ok: whether the start command succeeds
Finally ==
    /\ pc = "finally"
    /\ \E ok \in BOOLEAN : haRunning' = start_ha(haRunning, method, ok)
    /\ startLog' = startLog \o start_calls(method)
    /\ cache' = IF bracket \in {"run", "suffix"} \/ exc = "none"
                THEN invalidate_cache(cache, "all") ELSE cache
    /\ pc' = IF exc = "none" \/ caller_catches(bracket, exc) THEN "menu" ELSE "crashed"
    /\ last' = Note("finally", exc, TRUE)
    /\ UNCHANGED <<files, snapshots, tmp, defs, hostSaw, now, calls, bracket, dry, ops,
                   stage, method, acked, save, local, exc, raised, ret, report, acted,
                   expect, opBackups>>

\* the host application, while it runs, reads a registry file
HostRead ==
    /\ haRunning
    /\ \E p \in RegistryPaths : hostSaw' = files[p].text
    /\ UNCHANGED <<files, snapshots, tmp, cache, defs, haRunning, now, pc, calls,
                   bracket, dry, ops, stage, method, acked, save, local, exc, raised,
                   ret, report, acted, expect, opBackups, startLog, last>>

Next ==
    \/ Call_run_with_ha_restart
    \/ Call_preview
    \/ Call_suffix_fix
    \/ Call_cleanup_old_backups
    \/ Call_selective_restore_entities
    \/ Call_full_restore_registry
    \/ Run_cleanup_orphaned_entities
    \/ Run_cleanup_deleted_items
    \/ Run_purge_database
    \/ Run_fix_entity_suffix
    \/ Run_cleanup_old_backups
    \/ Run_selective_restore_merge
    \/ Run_full_restore_backup
    \/ save_json_open
    \/ save_json_write
    \/ copy2_open
    \/ copy2_write
    \/ Finally
    \/ HostRead

Spec == Init /\ [][Next]_vars

-----------------------------------------------------------------------------
(* Specification of a selective restore with the host writing the entity   *)
(* registry while the operator selects and confirms.                       *)

NextHost ==
    \/ Call_selective_restore_entities_host_writes
    \/ Run_selective_restore_merge
    \/ save_json_open
    \/ save_json_write
    \/ Finally

SpecHost == Init /\ [][NextHost]_vars

-----------------------------------------------------------------------------
(* Specification of the orphan detector alone: every registry of up to     *)
(* MaxEntities entities, the first with every combination of platform,     *)
(* references and unique id.                                               *)

MaxEntities == 2

Platforms == {"automation", "script", "scene", "mqtt"}
DeviceRefs == {ABSENT, NULL, "d1", "d2"}
ConfigRefs == {ABSENT, NULL, "c1", "c2"}
UniqueIds == {ABSENT, NULL, "u1", "u2"}

PositionId(i) == EntityId("sensor.e", <<i>>)

\* the entities that follow the first one
FollowerShapes ==
    { <<"mqtt", "d2", "c1", NULL>>, <<"automation", "d2", NULL, "u1">>,
      <<"script", "d2", "c2", ABSENT>>, <<"mqtt", NULL, ABSENT, "u2">> }

OrphanInputs ==
    UNION { { [i \in 1..n |-> IF i = 1 THEN Entity(PositionId(1), first[1], first[2], first[3], first[4], "n")
                              ELSE Entity(PositionId(i), rest[i-1][1], rest[i-1][2], rest[i-1][3], rest[i-1][4], "n")] :
              first \in Platforms \X DeviceRefs \X ConfigRefs \X UniqueIds,
              rest \in [1..(n-1) -> FollowerShapes] } : n \in 1..MaxEntities }

\* the ids of the device records and of the config entries; in the last two
\* a device record has no "id" key, a config entry no "entry_id" key
OrphanReferents ==
    ({<<"d1">>, <<"d1", "d2">>} \X {<<"c1">>, <<"c2", "c1">>})
       \cup {<< <<"d1", ABSENT>>, <<"c1">> >>, << <<"d1">>, <<ABSENT, "c1">> >>}

InitOrphan ==
    /\ \E entities \in OrphanInputs, ids \in OrphanReferents :
          LET devs == ids[1]
              cfgs == ids[2]
          IN
          files = [p \in RegistryPaths |->
                     CASE p = ENTITY_REGISTRY ->
                            File(TRUE, "json", EntityDoc(entities, <<>>), StartOfRun - 1)
                       [] p = DEVICE_REGISTRY ->
                            File(TRUE, "json", DeviceDoc(devs, <<>>), StartOfRun - 2)
                       [] p = CONFIG_ENTRIES ->
                            File(TRUE, "json", ConfigDoc(cfgs), StartOfRun - 3)]
    /\ \E a \in {{}, {"u1"}}, s \in {{}, {"u1"}}, z \in {{}, {"u2"}} :
          defs = [automation |-> a, script |-> s, scene |-> z]
    /\ snapshots = {}
    /\ tmp = [p \in RegistryPaths |-> FALSE]
    /\ cache = EmptyCache
    /\ haRunning = TRUE
    /\ hostSaw = "json"
    /\ now = StartOfRun
    /\ pc = "menu"
    /\ calls = 0
    /\ bracket = "none"
    /\ dry = FALSE
    /\ ops = <<>>
    /\ stage = 1
    /\ method = "none"
    /\ acked = FALSE
    /\ save = NoSave
    /\ local = NoLocal
    /\ exc = "none"
    /\ raised = "none"
    /\ ret = 0
    /\ report = <<>>
    /\ acted = <<>>
    /\ expect = NoExpect
    /\ opBackups = {}
    /\ startLog = <<>>
    /\ last = Note("init", "none", FALSE)

\* one detection pass
Detect ==
    /\ pc = "menu"
    /\ LET r == find_orphaned_entities(files, cache, defs)
       IN  /\ report' = r.orphans
           /\ cache' = r.cache
           /\ raised' = r.raised
           /\ pc' = IF r.raised = "none" THEN "detected" ELSE "crashed"
           /\ last' = Note("find_orphaned_entities", r.raised, r.raised = "none")
    /\ UNCHANGED <<files, snapshots, tmp, defs, haRunning, hostSaw, now, calls, bracket,
                   dry, ops, stage, method, acked, save, local, exc, ret, acted,
                   expect, opBackups, startLog>>

\* the paths invalidate_cache may have been called with between two passes:
\* none, the entity registry alone, or all of them
Invalidations == { {}, {ENTITY_REGISTRY}, RegistryPaths }

\* a second detection pass on the same files, served from the cache or, for
\* the paths dropped from it, from the disk
DetectAgain ==
    /\ pc = "detected"
    /\ \E dropped \in Invalidations :
         LET c == [p \in RegistryPaths |-> IF p \in dropped THEN NoEntry ELSE cache[p]]
             r == find_orphaned_entities(files, c, defs)
         IN  /\ report' = r.orphans
             /\ cache' = r.cache
             /\ local' = [dropped |-> dropped]
    /\ expect' = [report |-> report, ret |-> 0]
    /\ pc' = "detected2"
    /\ last' = Note("find_orphaned_entities", "none", TRUE)
    /\ UNCHANGED <<files, snapshots, tmp, defs, haRunning, hostSaw, now, calls, bracket,
                   dry, ops, stage, method, acked, save, exc, raised, ret, acted,
                   opBackups, startLog>>

NextOrphan == Detect \/ DetectAgain

SpecOrphan == InitOrphan /\ [][NextOrphan]_vars

-----------------------------------------------------------------------------
(* Properties of the orphan detector, read off the finished detection pass. *)

Detected == pc = "detected"
RegistryEntities == files[ENTITY_REGISTRY].doc.entities
DeviceSet == Range(files[DEVICE_REGISTRY].doc.items)
ConfigEntrySet == Range(files[CONFIG_ENTRIES].doc.items)

\* the entity is in the returned list
Listed(e) == \E i \in 1..Len(report) : report[i][2] = e.entity_id

\* the reference under key k is present, non-null and not in the set
Dangling(e, k, present) == e[k] \notin {ABSENT, NULL} /\ e[k] \notin present
HasUniqueId(e) == e.unique_id \notin {ABSENT, NULL}
IsDefinitionEntity(e) == e.platform \in DefinitionPlatforms
OwnDefinitions(e) ==
    IF e.platform = "automation" THEN defs.automation
    ELSE IF e.platform = "script" THEN defs.script
    ELSE defs.scene

\* C4 as stated: every entity with a dangling device reference is listed,
\* unless it is an automation/script/scene entity carrying a unique id.
C4_DanglingDeviceListedUnlessIdentified ==
    Detected =>
        \A e \in Range(RegistryEntities) :
            (Dangling(e, "device_id", DeviceSet)
             /\ ~(IsDefinitionEntity(e) /\ HasUniqueId(e))) => Listed(e)

\* C4 amended: every entity with a dangling device reference is listed,
\* unless its platform is automation, script or scene (with or without a
\* unique id).
C4_DanglingDeviceListedUnlessDefinitionPlatform ==
    Detected =>
        \A e \in Range(RegistryEntities) :
            (Dangling(e, "device_id", DeviceSet) /\ ~IsDefinitionEntity(e)) => Listed(e)

C4_Witness ==
    /\ Detected
    /\ \E e \in Range(RegistryEntities) :
          /\ Dangling(e, "device_id", DeviceSet)
          /\ ~Dangling(e, "config_entry_id", ConfigEntrySet)
          /\ ~IsDefinitionEntity(e)
          /\ Listed(e)

\* C5: an automation/script/scene entity without a unique id is never
\* listed, whatever its references and the device, config-entry and
\* definition sets hold.
C5_UnidentifiedDefinitionEntityNeverListed ==
    Detected =>
        \A e \in Range(RegistryEntities) :
            (IsDefinitionEntity(e) /\ ~HasUniqueId(e)) => ~Listed(e)

C5_Witness ==
    /\ Detected
    /\ \E e \in Range(RegistryEntities) :
          /\ IsDefinitionEntity(e) /\ ~HasUniqueId(e)
          /\ Dangling(e, "device_id", DeviceSet)
          /\ Dangling(e, "config_entry_id", ConfigEntrySet)
          /\ ~Listed(e)

\* C6: an automation/script/scene entity with a unique id is listed exactly
\* when that id is missing from the definitions of its own category,
\* whether or not its references dangle.
C6_IdentifiedDefinitionEntityListedIffUndefined ==
    Detected =>
        \A e \in Range(RegistryEntities) :
            (IsDefinitionEntity(e) /\ HasUniqueId(e)) =>
                (Listed(e) <=> e.unique_id \notin OwnDefinitions(e))

C6_Witness ==
    /\ Detected
    /\ \E e \in Range(RegistryEntities) :
          /\ e.platform = "script" /\ HasUniqueId(e)
          /\ e.unique_id \in defs.script /\ e.unique_id \notin defs.automation
          /\ Dangling(e, "device_id", DeviceSet)
          /\ ~Listed(e)

\* what C7 calls orphaned, for an entity outside automation/script/scene
ReferenceOrphan(e) ==
    \/ Dangling(e, "device_id", DeviceSet)
    \/ Dangling(e, "config_entry_id", ConfigEntrySet)

\* the classification C5, C6 and C7 describe together
ExpectedOrphan(e) ==
    IF IsDefinitionEntity(e)
    THEN HasUniqueId(e) /\ e.unique_id \notin OwnDefinitions(e)
    ELSE ReferenceOrphan(e)

ExpectedOrphanIds ==
    LET hit == SelectSeq(RegistryEntities, ExpectedOrphan)
    IN  [i \in 1..Len(hit) |-> hit[i].entity_id]

\* C7: an entity outside automation/script/scene is listed exactly when its
\* device or its config-entry reference is present, non-null and dangling;
\* with both references absent or null it is not listed; and the result is
\* the orphaned entities in registry order.
C7_ReferenceOrphansExactlyInRegistryOrder ==
    Detected =>
        /\ \A e \in Range(RegistryEntities) :
              ~IsDefinitionEntity(e) => (Listed(e) <=> ReferenceOrphan(e))
        /\ \A e \in Range(RegistryEntities) :
              (/\ ~IsDefinitionEntity(e)
               /\ e.device_id \in {ABSENT, NULL}
               /\ e.config_entry_id \in {ABSENT, NULL}) => ~Listed(e)
        /\ [i \in 1..Len(report) |-> report[i][2]] = ExpectedOrphanIds
        /\ \A i \in 1..Len(report) :
              \E e \in Range(RegistryEntities) :
                  report[i] = <<e.platform, e.entity_id, e.original_name>>

C7_Witness ==
    /\ Detected
    /\ Len(RegistryEntities) = 2
    /\ ~IsDefinitionEntity(RegistryEntities[1])
    /\ ~Dangling(RegistryEntities[1], "device_id", DeviceSet)
    /\ Dangling(RegistryEntities[1], "config_entry_id", ConfigEntrySet)
    /\ Len(report) = 2

-----------------------------------------------------------------------------
(* Specification of the diff engine alone: compare_registries on a          *)
(* snapshot and a live registry of up to MaxDiffIds entities each.          *)

MaxDiffIds == 3

\* how an entity of the snapshot or of the live registry may look
\* ("bare": the entity object has no disabled_by key)
DiffShapes == {"none", "base", "disabled", "reregistered", "bare"}

DiffEntity(i, shape) ==
    [Entity(PositionId(i), "mqtt", "d1", "c1", "u1", "E")
        EXCEPT !.disabled_by = IF shape = "disabled" THEN "user"
                               ELSE IF shape = "bare" THEN ABSENT ELSE NULL,
               !.unique_id = IF shape = "reregistered" THEN "u2" ELSE "u1"]

\* the entities list of a registry that has entity i in shape choice[i]
DiffEntities(choice) ==
    LET present == SelectSeq([i \in 1..MaxDiffIds |-> i],
                             LAMBDA i : choice[i] # "none")
    IN  [k \in 1..Len(present) |-> DiffEntity(present[k], choice[present[k]])]

InitDiff ==
    /\ \E b, c \in [1..MaxDiffIds -> DiffShapes] :
          /\ files = [p \in RegistryPaths |->
                        CASE p = ENTITY_REGISTRY ->
                               File(TRUE, "json", EntityDoc(DiffEntities(c), <<>>),
                                    StartOfRun - 1)
                          [] p = DEVICE_REGISTRY ->
                               File(TRUE, "json", DeviceDoc(<<"d1">>, <<>>), StartOfRun - 2)
                          [] p = CONFIG_ENTRIES ->
                               File(TRUE, "json", ConfigDoc(<<"c1">>), StartOfRun - 3)]
          /\ snapshots =
                {Snapshot(ENTITY_REGISTRY, Timestamp(StartOfRun) - 3600,
                          File(TRUE, "json", EntityDoc(DiffEntities(b), <<>>),
                               StartOfRun - 86400 * TicksPerSecond))}
    /\ defs = [automation |-> {}, script |-> {}, scene |-> {}]
    /\ tmp = [p \in RegistryPaths |-> FALSE]
    /\ cache = EmptyCache
    /\ haRunning = TRUE
    /\ hostSaw = "json"
    /\ now = StartOfRun
    /\ pc = "menu"
    /\ calls = 0
    /\ bracket = "none"
    /\ dry = FALSE
    /\ ops = <<>>
    /\ stage = 1
    /\ method = "none"
    /\ acked = FALSE
    /\ save = NoSave
    /\ local = NoLocal
    /\ exc = "none"
    /\ raised = "none"
    /\ ret = 0
    /\ report = <<>>
    /\ acted = <<>>
    /\ expect = NoExpect
    /\ opBackups = {}
    /\ startLog = <<>>
    /\ last = Note("init", "none", FALSE)

\* preview_backup_diff: the snapshot and the live registry are loaded and
\* compared; report is the EntityDiff
Compare ==
    /\ pc = "menu"
    /\ \E snap \in snapshots :
          LET current == load_json(files, cache, ENTITY_REGISTRY, TRUE)
          IN  /\ report' = compare_registries(snap.doc, current.doc)
              /\ cache' = current.cache
    /\ pc' = "compared"
    /\ last' = Note("compare_registries", "none", TRUE)
    /\ UNCHANGED <<files, snapshots, tmp, defs, haRunning, hostSaw, now, calls, bracket,
                   dry, ops, stage, method, acked, save, local, exc, raised, ret, acted,
                   expect, opBackups, startLog>>

NextDiff == Compare

SpecDiff == InitDiff /\ [][NextDiff]_vars

-----------------------------------------------------------------------------
(* Specification of the suffix collision detector alone:                   *)
(* find_suffix_entities on registries of up to MaxSuffixEntities entities.  *)

MaxSuffixEntities == 2

\* the digits an entity id may end in after its last underscore
SuffixDigits == {<<>>, <<0>>, <<1>>, <<2>>, <<9>>, <<0, 0>>, <<0, 1>>, <<1, 7>>}
SuffixIds == {EntityId(stem, suf) : stem \in {"sensor.power", "sensor.temp"},
                                    suf \in SuffixDigits}

\* registries whose entities have ids of their own
SuffixInputs ==
    UNION {{q \in [1..n -> SuffixIds] : \A i, j \in 1..n : q[i] = q[j] => i = j} :
              n \in 0..MaxSuffixEntities}

InitSuffix ==
    /\ \E ids \in SuffixInputs :
          files = [p \in RegistryPaths |->
                     CASE p = ENTITY_REGISTRY ->
                            File(TRUE, "json",
                                 EntityDoc([i \in 1..Len(ids) |->
                                              Entity(ids[i], "mqtt", "d1", "c1", "u1", "E")],
                                           <<>>),
                                 StartOfRun - 1)
                       [] p = DEVICE_REGISTRY ->
                            File(TRUE, "json", DeviceDoc(<<"d1">>, <<>>), StartOfRun - 2)
                       [] p = CONFIG_ENTRIES ->
                            File(TRUE, "json", ConfigDoc(<<"c1">>), StartOfRun - 3)]
    /\ snapshots = {}
    /\ defs = [automation |-> {}, script |-> {}, scene |-> {}]
    /\ tmp = [p \in RegistryPaths |-> FALSE]
    /\ cache = EmptyCache
    /\ haRunning = TRUE
    /\ hostSaw = "json"
    /\ now = StartOfRun
    /\ pc = "menu"
    /\ calls = 0
    /\ bracket = "none"
    /\ dry = FALSE
    /\ ops = <<>>
    /\ stage = 1
    /\ method = "none"
    /\ acked = FALSE
    /\ save = NoSave
    /\ local = NoLocal
    /\ exc = "none"
    /\ raised = "none"
    /\ ret = 0
    /\ report = <<>>
    /\ acted = <<>>
    /\ expect = NoExpect
    /\ opBackups = {}
    /\ startLog = <<>>
    /\ last = Note("init", "none", FALSE)

\* one call of find_suffix_entities
FindSuffix ==
    /\ pc = "menu"
    /\ LET r == find_suffix_entities(files, cache)
       IN  /\ report' = r.candidates
           /\ cache' = r.cache
    /\ pc' = "found"
    /\ last' = Note("find_suffix_entities", "none", TRUE)
    /\ UNCHANGED <<files, snapshots, tmp, defs, haRunning, hostSaw, now, calls, bracket,
                   dry, ops, stage, method, acked, save, local, exc, raised, ret, acted,
                   expect, opBackups, startLog>>

NextSuffix == FindSuffix

SpecSuffix == InitSuffix /\ [][NextSuffix]_vars

-----------------------------------------------------------------------------
(* Specification of the selection parser alone: parse_selection on every   *)
(* text of up to MaxSelectionLen characters, and on the texts of the words. *)

MaxSelectionLen == 4
MaxIndex == 4

SelectionChars == {"1", "2", "3", ",", "-", " ", "x"}

SelectionWords ==
    { <<"a", "l", "l">>, <<"A", "L", "L">>, <<" ", "a", "l", "l", " ">>,
      <<"n", "o", "n", "e">>, <<"N", "o", "n", "e">>, <<"n">>, <<"q">>, <<"Q">>,
      <<"a", "l", "l", ",", "1">>, <<"n", ",", "2">>, <<"9", "9">>, <<"0", "-", "2">>,
      <<"0", "2">>, <<"2", "-", "9", "9">>, <<"1", ",", "2", "-", "3">>,
      <<"1", ",", "x", ",", "3">>, <<"1", "-", "2", "-", "3", ",", "4">> }

SelectionTexts ==
    UNION {[1..n -> SelectionChars] : n \in 0..MaxSelectionLen} \cup SelectionWords

\* the example of the documentation: "1,3-5,8" of 10
SelectionExample == <<"1", ",", "3", "-", "5", ",", "8">>

InitSelect ==
    /\ \E text \in SelectionTexts \cup {SelectionExample}, max_num \in 0..MaxIndex :
          local = [selection |-> text,
                   max_num |-> IF text = SelectionExample THEN 10 ELSE max_num]
    /\ files = [p \in RegistryPaths |-> NoFile]
    /\ snapshots = {}
    /\ defs = [automation |-> {}, script |-> {}, scene |-> {}]
    /\ tmp = [p \in RegistryPaths |-> FALSE]
    /\ cache = EmptyCache
    /\ haRunning = TRUE
    /\ hostSaw = "json"
    /\ now = StartOfRun
    /\ pc = "menu"
    /\ calls = 0
    /\ bracket = "none"
    /\ dry = FALSE
    /\ ops = <<>>
    /\ stage = 1
    /\ method = "none"
    /\ acked = FALSE
    /\ save = NoSave
    /\ exc = "none"
    /\ raised = "none"
    /\ ret = {}
    /\ report = <<>>
    /\ acted = <<>>
    /\ expect = NoExpect
    /\ opBackups = {}
    /\ startLog = <<>>
    /\ last = Note("init", "none", FALSE)

\* one call of parse_selection; ret is the set it returns
Select ==
    /\ pc = "menu"
    /\ ret' = parse_selection(local.selection, local.max_num)
    /\ pc' = "parsed"
    /\ last' = Note("parse_selection", "none", TRUE)
    /\ UNCHANGED <<files, snapshots, tmp, cache, defs, haRunning, hostSaw, now, calls,
                   bracket, dry, ops, stage, method, acked, save, local, exc, raised,
                   report, acted, expect, opBackups, startLog>>

NextSelect == Select

SpecSelect == InitSelect /\ [][NextSelect]_vars

-----------------------------------------------------------------------------
(* Specification of the retention purger alone: cleanup_old_backups on a   *)
(* storage directory of live files, snapshots and other files.             *)

MaxStuck == 1

StorageNames ==
    { [path |-> ENTITY_REGISTRY, ending |-> ""],
      [path |-> ENTITY_REGISTRY, ending |-> "backup.stamp"],
      [path |-> ENTITY_REGISTRY, ending |-> "backup.text"],
      [path |-> ENTITY_REGISTRY, ending |-> "tmp"],
      [path |-> DEVICE_REGISTRY, ending |-> "backup.stamp"],
      [path |-> DEVICE_REGISTRY, ending |-> "bak"] }

\* modification times: well before the cutoff, a tick before it, the cutoff
\* itself, and the day before the run
StorageTimes ==
    { StartOfRun - 2 * RetentionTicks, StartOfRun - RetentionTicks - 1,
      StartOfRun - RetentionTicks, StartOfRun - 86400 * TicksPerSecond }

InitPurge ==
    /\ \E present \in SUBSET StorageNames :
       \E mtimes \in [present -> StorageTimes] :
       \E stuck \in {x \in SUBSET present : Cardinality(x) <= MaxStuck} :
          local = [storage |-> {[name |-> n, mtime |-> mtimes[n]] : n \in present},
                   stuck |-> stuck]
    /\ files = [p \in RegistryPaths |-> NoFile]
    /\ snapshots = {}
    /\ defs = [automation |-> {}, script |-> {}, scene |-> {}]
    /\ tmp = [p \in RegistryPaths |-> FALSE]
    /\ cache = EmptyCache
    /\ haRunning = TRUE
    /\ hostSaw = "json"
    /\ now = StartOfRun
    /\ pc = "menu"
    /\ calls = 0
    /\ bracket = "none"
    /\ dry = FALSE
    /\ ops = <<>>
    /\ stage = 1
    /\ method = "none"
    /\ acked = FALSE
    /\ save = NoSave
    /\ exc = "none"
    /\ raised = "none"
    /\ ret = 0
    /\ report = <<>>
    /\ acted = <<>>
    /\ expect = NoExpect
    /\ opBackups = {}
    /\ startLog = <<>>
    /\ last = Note("init", "none", FALSE)

\* one call of cleanup_old_backups
Purge ==
    /\ pc = "menu"
    /\ LET r == cleanup_old_backups_storage(local.storage, now, local.stuck)
       IN  /\ local' = [local EXCEPT !.storage = r.storage]
           /\ ret' = r.removed
    /\ pc' = "purged"
    /\ last' = Note("cleanup_old_backups", "none", TRUE)
    /\ UNCHANGED <<files, snapshots, tmp, cache, defs, haRunning, hostSaw, now, calls,
                   bracket, dry, ops, stage, method, acked, save, exc, raised, report,
                   acted, expect, opBackups, startLog>>

NextPurge == Purge

SpecPurge == InitPurge /\ [][NextPurge]_vars

\* C19: a second find_orphaned_entities on unchanged registry files returns
\* the list the first returned, whether it reads the cache or the disk, and
\* no detection pass changes a registry file.
C19_DetectionRepeatable ==
    [][ /\ files' = files
        /\ (pc = "detected" /\ pc' = "detected2") => report' = report ]_vars

\* C19 witness: a second pass served wholly from the cache has returned the
\* two orphans the first one returned
C19_Witness ==
    /\ pc = "detected2"
    /\ local.dropped = {}
    /\ \A p \in RegistryPaths : cache[p].hit
    /\ Len(report) = 2
    /\ expect.report = report

\* C28: find_orphaned_entities raises no exception, whatever the registry
\* files hold.
C28_DetectionNeverRaises == raised = "none" /\ pc # "crashed"

-----------------------------------------------------------------------------
(* Specification of the size check of full_restore_registry alone, on every *)
(* pair of entity counts up to MaxCount, the live registry present or not.  *)

MaxCount == 7

InitWarn ==
    /\ \E backup_entity_count, entities \in 0..MaxCount, exists \in BOOLEAN :
          local = [backup_entity_count |-> backup_entity_count,
                   entities |-> entities, exists |-> exists]
    /\ files = [p \in RegistryPaths |-> NoFile]
    /\ snapshots = {}
    /\ defs = [automation |-> {}, script |-> {}, scene |-> {}]
    /\ tmp = [p \in RegistryPaths |-> FALSE]
    /\ cache = EmptyCache
    /\ haRunning = TRUE
    /\ hostSaw = "json"
    /\ now = StartOfRun
    /\ pc = "menu"
    /\ calls = 0
    /\ bracket = "none"
    /\ dry = FALSE
    /\ ops = <<>>
    /\ stage = 1
    /\ method = "none"
    /\ acked = FALSE
    /\ save = NoSave
    /\ exc = "none"
    /\ raised = "none"
    /\ ret = 0
    /\ report = FALSE
    /\ acted = <<>>
    /\ expect = NoExpect
    /\ opBackups = {}
    /\ startLog = <<>>
    /\ last = Note("init", "none", FALSE)

\* the size check: current_entity_count is the length of the live entities,
\* or 0 when the live registry cannot be loaded; report is whether the
\* warning is printed
Warn ==
    /\ pc = "menu"
    /\ LET current_entity_count == IF local.exists THEN local.entities ELSE 0
       IN  report' = size_warning(local.backup_entity_count, current_entity_count)
    /\ pc' = "warned"
    /\ last' = Note("full_restore_registry", "none", FALSE)
    /\ UNCHANGED <<files, snapshots, tmp, cache, defs, haRunning, hostSaw, now, calls,
                   bracket, dry, ops, stage, method, acked, save, local, exc, raised,
                   ret, acted, expect, opBackups, startLog>>

NextWarn == Warn

SpecWarn == InitWarn /\ [][NextWarn]_vars

-----------------------------------------------------------------------------
(* Claims about the operations and the handlers, checked under Spec.       *)

\* a step of the tool that wrote or replaced registry file p
Writes(p) == files'[p] # files[p]

\* C1: in a real run of an operation, a registry file is written only after
\* backup_file copied that same file in the same operation; and a step in
\* which backup_file raises writes nothing and ends the operation.
C1_WriteOnlyAfterBackupOfSamePath ==
    [][ /\ \A p \in RegistryPaths : Writes(p) => (~dry /\ p \in opBackups)
        /\ (last'.fail = "backup_file" /\ ops' # ops)
              => /\ files' = files
                 /\ save' = NoSave
                 /\ pc' \in {"ops", "finally"}
                 /\ ops' \in {Tail(ops), <<>>} ]_vars

\* C1 witness: a save that followed the backup of the entity registry is done
C1_Witness ==
    /\ last = Note("save_json", "none", TRUE)
    /\ opBackups = {ENTITY_REGISTRY}
    /\ \E x \in snapshots : x.path = ENTITY_REGISTRY /\ x.doc # files[ENTITY_REGISTRY].doc

\* C2: the host, reading a registry file at any point of an operation that
\* writes it, never finds a partially written file.
C2_HostNeverReadsPartialFile == hostSaw # "partial"

\* C3: when save_json fails at open, lock, dump, flush or fsync, the target
\* file is as it was before the call, the temporary file does not exist, and
\* ValueError is raised to the caller.
C3_FailedSaveLeavesTargetAndNoTemp ==
    [][ /\ (pc = "save_tmp" => files' = files)
        /\ (/\ pc \in {"save_tmp", "save_write"}
            /\ last'.step = "save_json"
            /\ last'.fail \in {"open", "lock", "dump", "flush", "fsync"})
              => /\ files' = files
                 /\ \A p \in RegistryPaths : ~tmp'[p]
                 /\ raised' = "ValueError" ]_vars

\* C3 witness: save_json failed at fsync, after the temporary file was written
C3_Witness ==
    /\ last = Note("save_json", "fsync", FALSE)
    /\ raised = "ValueError"
    /\ ~tmp[ENTITY_REGISTRY]

C9_NoWriteWithoutStopOrAcknowledgement ==
    [][ /\ files' # files => (method # "none" \/ acked)
        /\ (calls' # calls /\ last'.step = "declined")
              => /\ files' = files
                 /\ snapshots' = snapshots
                 /\ haRunning' = haRunning
                 /\ pc' = "menu" ]_vars

\* C9 witness: stop_ha failed, the operator declined, the handler is over
C9_Witness ==
    /\ last = Note("declined", "stop_ha", FALSE)
    /\ bracket = "full"
    /\ pc = "menu"
    /\ haRunning

\* a step of a handler or operation called with dry_run true
DryStep == (dry /\ pc = "ops") \/ (calls' # calls /\ dry')

\* what a dry run may not do
DryFrame ==
    DryStep => /\ files' = files
               /\ snapshots' = snapshots
               /\ haRunning' = haRunning
               /\ method' = "none" /\ ~acked'
               /\ startLog' = <<>>

\* the step in which a real run of operation op is over, its write done
RealRunActed(op) ==
    /\ ~dry /\ ops # <<>> /\ Head(ops) = op /\ ops' # ops
    /\ last'.done
    /\ \/ last'.step \in {"save_json", "copy2"}
       \/ last'.step = "cleanup_deleted_items" /\ acted' # <<>>

RealOperations ==
    {"cleanup_orphaned_entities", "cleanup_deleted_items", "fix_entity_suffix",
     "selective_restore_merge", "full_restore_backup"}

\* C10 as stated: a dry run changes no registry file and no snapshot file and
\* does not stop or start the host; and what the dry run lists and returns is
\* what the real run, from the same state, acts on and returns.
C10_DryRunReportsWhatRealRunActsOn ==
    [][ /\ DryFrame
        /\ \A op \in RealOperations :
              RealRunActed(op) => (acted' = expect'.report /\ ret' = expect'.ret) ]_vars

\* C10 amended: as above, except that the real run of fix_entity_suffix acts
\* on, and returns the number of, the listed candidates the operator selected.
C10_DryRunReportsWhatRealRunActsOnUpToSelection ==
    [][ /\ DryFrame
        /\ \A op \in RealOperations \ {"fix_entity_suffix"} :
              RealRunActed(op) => (acted' = expect'.report /\ ret' = expect'.ret)
        /\ RealRunActed("fix_entity_suffix")
              => /\ \E indices \in SUBSET (1..Len(expect'.report)) :
                       acted' = pick(expect'.report, indices)
                 /\ ret' = Len(acted')
                 /\ expect'.ret = Len(expect'.report) ]_vars

\* C10 witness: a dry run listed candidates, nothing changed on disk
C10_Witness ==
    /\ dry /\ pc = "menu" /\ bracket = "preview"
    /\ report # <<>> /\ ret > 0
    /\ method = "none" /\ startLog = <<>> /\ haRunning

\* C11: backup_file creates a snapshot that holds what the file holds at that
\* moment, and never changes what a snapshot that already exists holds, also
\* when two backups of one path fall within the same second.
C11_BackupNeverAltersExistingSnapshot ==
    [][ /\ \A y \in snapshots' \ snapshots :
              y.text = files[y.path].text /\ y.doc = files[y.path].doc
        /\ \A x \in snapshots : \A y \in snapshots' :
              NameOf(x) = NameOf(y) => (y.text = x.text /\ y.doc = x.doc) ]_vars

\* C20: at the end of a real run_with_ha_restart, every registry file written
\* during the run still has the snapshot taken of it during the run, whatever
\* the age of the registry file was.
C20_SnapshotOfWrittenFileSurvivesPurge ==
    (bracket = "run" /\ ~dry /\ pc = "finally")
        => \A p \in RegistryPaths :
              files[p].mtime > StartOfRun
                 => \E x \in snapshots : x.path = p /\ x.ts >= Timestamp(StartOfRun)

C21_FailedSaveLeavesNoTraceInLoads ==
    (last.step = "save_json" /\ last.fail # "none")
       => \A p \in RegistryPaths :
             load_json(files, cache, p, TRUE).status = "ok"
                => load_json(files, cache, p, TRUE).doc = files[p].doc

\* C24: in a real run_with_ha_restart an operation that raises is passed
\* over and the next one is called; operations are taken off the list one at
\* a time from its head, each by a step of its own; the finally block is
\* reached by the retention purge, the last of the list, with no exception
\* in flight.
C24_BatchContinuesAfterFailure ==
    [][ (bracket = "run" /\ ~dry /\ pc \in {"ops", "save_tmp", "save_write"})
          => /\ ops' \in {ops, Tail(ops)}
             /\ ops' = Tail(ops) => last'.step \in {Head(ops), "save_json"}
             /\ (raised' # "none")
                  => /\ ops' = Tail(ops) /\ pc' = "ops" /\ exc' = "none"
                     /\ Head(ops) # "cleanup_old_backups"
             /\ (pc' = "finally")
                  => /\ ops' = <<>> /\ exc' = "none"
                     /\ last'.step = "cleanup_old_backups" ]_vars

\* C24 witness: save_json or backup_file failed in cleanup_orphaned_entities,
\* the first of three operations, and cleanup_deleted_items is next
C24_Witness ==
    /\ bracket = "run" /\ ~dry /\ pc = "ops"
    /\ raised \in {"ValueError", "OSError"}
    /\ ops = <<"cleanup_deleted_items", "purge_database", "cleanup_old_backups">>

\* C25: when a handler that stopped the host has run its finally block and
\* control is back at the menu, the read cache is empty.
C25_CacheEmptyAfterBracket ==
    (pc = "menu" /\ last.step = "finally") => cache = EmptyCache

\* C29: the call of full_restore_registry up to its try block changes no
\* registry file and no snapshot file; when it returns there, the host is as
\* it was; it goes on to stop the host only for a snapshot that parses and
\* has data.entities, and only after the operator confirmed; and the entity
\* registry is replaced only in a call the operator confirmed.
C29_FullRestoreOnlyValidAndConfirmed ==
    [][ /\ (calls' # calls /\ bracket' = "full")
              => /\ files' = files /\ snapshots' = snapshots
                 /\ pc' = "menu" => (haRunning' = haRunning /\ method' = "none")
                 /\ pc' # "menu"
                      => /\ local'.confirmed
                         /\ SnapshotNamed(snapshots, local'.source).text = "json"
                         /\ SnapshotNamed(snapshots, local'.source).doc.kind = "entity"
        /\ (bracket = "full" /\ (Writes(ENTITY_REGISTRY) \/ snapshots' # snapshots))
              => local.confirmed /\ ~dry ]_vars

\* C29 witness: a confirmed full restore is done where the size warning was
\* shown: the registry replaced had one entity, the snapshot has three; and
\* the storage directory holds a snapshot that is not JSON
C29_Witness ==
    /\ bracket = "full" /\ last = Note("copy2", "none", TRUE) /\ local.confirmed
    /\ \E x \in snapshots :
          /\ x.path = ENTITY_REGISTRY /\ x.ts >= Timestamp(StartOfRun)
          /\ size_warning(local.count, Len(x.doc.entities))
    /\ \E x \in snapshots : x.text # "json"

\* C30: fix_entity_suffix writes the entity registry only in a real run in
\* which the operator selected at least one candidate and confirmed; the
\* registry written has the same entities in the same order, the selected
\* candidates carrying their base id and everything else as it was; and the
\* operation lists of run_with_ha_restart do not hold fix_entity_suffix.
C30_RenameOnlySelectedAndConfirmed ==
    [][ /\ (ops # <<>> /\ Head(ops) = "fix_entity_suffix"
              /\ (files' # files \/ pc' = "save_tmp"))
              => LET candidates == find_suffix_entities(files, EmptyCache).candidates
                     chosen == {candidates[i] : i \in local'.indices}
                     before == files[ENTITY_REGISTRY].doc.entities
                     after == IF files' # files
                              THEN files'[ENTITY_REGISTRY].doc.entities
                              ELSE save'.doc.entities
                 IN  /\ ~dry /\ local'.confirmed /\ local'.indices # {}
                     /\ local'.indices \subseteq 1..Len(candidates)
                     /\ Len(after) = Len(before)
                     /\ \A i \in 1..Len(before) :
                           IF \E x \in chosen : x[1] = before[i].entity_id
                           THEN after[i] = [before[i] EXCEPT
                                              !.entity_id = strip_suffix(before[i].entity_id)]
                           ELSE after[i] = before[i]
                     /\ \A p \in RegistryPaths \ {ENTITY_REGISTRY} : files'[p] = files[p]
                     /\ files' # files
                          => files'[ENTITY_REGISTRY].doc.deleted
                                = files[ENTITY_REGISTRY].doc.deleted
        /\ bracket' = "run" => "fix_entity_suffix" \notin Range(ops') ]_vars

\* C30 witness: of the candidates sensor.power_2 and sensor.power_3 the
\* operator selected the first; it is renamed and the second is as it was
C30_Witness ==
    /\ bracket = "suffix" /\ last = Note("save_json", "none", TRUE)
    /\ local.indices = {1} /\ local.confirmed
    /\ files[ENTITY_REGISTRY].doc.entities
          = <<[Power2 EXCEPT !.entity_id = EntityId("sensor.power", <<>>)], Power3>>

\* C31: the save that completes a real cleanup_orphaned_entities leaves the
\* entity registry with the entities that were not orphaned, each as it was
\* and in the order they had, and its deleted_entities as they were; the
\* device and config-entry registries are untouched; the call returns the
\* number of entities removed; and find_orphaned_entities then returns the
\* empty list.
C31_OrphanCleanupRemovesExactlyOrphans ==
    [][ (~dry /\ pc = "save_write" /\ Head(ops) = "cleanup_orphaned_entities"
            /\ last' = Note("save_json", "none", TRUE))
          => LET before == files[ENTITY_REGISTRY].doc.entities
                 after == files'[ENTITY_REGISTRY].doc.entities
             IN  /\ after = SelectSeq(before, LAMBDA e : ~ExpectedOrphan(e))
                 /\ files'[ENTITY_REGISTRY].doc.deleted = files[ENTITY_REGISTRY].doc.deleted
                 /\ \A p \in RegistryPaths \ {ENTITY_REGISTRY} : files'[p] = files[p]
                 /\ ret' = Len(before) - Len(after)
                 /\ ret' > 0
                 /\ find_orphaned_entities(files', cache', defs').orphans = <<>>
                 /\ find_orphaned_entities(files', cache', defs').raised = "none" ]_vars

\* C31 witness: of sensor.power_2, sensor.temp and automation.morning the
\* last two were orphaned and are removed; 2 is returned
C31_Witness ==
    /\ bracket = "run" /\ ~dry /\ last = Note("save_json", "none", TRUE)
    /\ ret = 2 /\ Len(acted) = 2
    /\ files[ENTITY_REGISTRY].doc.entities = <<Power2>>

\* the entity ids of a list of entities are pairwise distinct
PairwiseDistinctIds(entities) ==
    \A i, j \in 1..Len(entities) : entities[i].entity_id = entities[j].entity_id => i = j

\* C23: a fix_entity_suffix that writes a registry whose entity ids are
\* pairwise distinct leaves them pairwise distinct, whatever was selected.
C23_SuffixFixKeepsIdsUnique ==
    [][ (bracket = "suffix" /\ Writes(ENTITY_REGISTRY)
            /\ PairwiseDistinctIds(files[ENTITY_REGISTRY].doc.entities))
          => PairwiseDistinctIds(files'[ENTITY_REGISTRY].doc.entities) ]_vars

-----------------------------------------------------------------------------
(* Claims about a selective restore beside a writing host, under SpecHost. *)

\* C22: every entity the live registry holds when the host has stopped is in
\* the registry, unchanged, after the save of a selective restore.
C22_SelectiveRestoreKeepsHostWrites ==
    [][ (bracket = "selective" /\ pc = "save_write"
            /\ last' = Note("save_json", "none", TRUE))
          => \A e \in Range(files[ENTITY_REGISTRY].doc.entities) :
                e \in Range(files'[ENTITY_REGISTRY].doc.entities) ]_vars

\* C26: a load_json of a readable registry file whose mtime is not the one
\* recorded in the cache returns the document on disk, the host's rewrite
\* included; and a save_json that completes leaves no cache entry for its
\* path, so that the next load_json returns the document saved.
C26_CacheServesOnlyCurrentMtime ==
    [][ /\ \A p \in RegistryPaths :
              (/\ files'[p].exists /\ files'[p].text = "json"
               /\ ~(cache'[p].hit /\ cache'[p].mtime = files'[p].mtime))
                 => /\ load_json(files', cache', p, TRUE).status = "ok"
                    /\ load_json(files', cache', p, TRUE).doc = files'[p].doc
        /\ (pc = "save_write" /\ last' = Note("save_json", "none", TRUE))
              => /\ ~cache'[save.path].hit
                 /\ load_json(files', cache', save.path, TRUE).status = "ok"
                 /\ load_json(files', cache', save.path, TRUE).doc = save.doc ]_vars

\* C26 witness: the host rewrote the entity registry after the tool cached
\* it; the cache entry carries the old mtime and the old document
C26_Witness ==
    /\ pc = "ops" /\ bracket = "selective"
    /\ cache[ENTITY_REGISTRY].hit
    /\ cache[ENTITY_REGISTRY].mtime # files[ENTITY_REGISTRY].mtime
    /\ cache[ENTITY_REGISTRY].doc # files[ENTITY_REGISTRY].doc

-----------------------------------------------------------------------------
(* Claims about the diff engine, checked under SpecDiff.                   *)

SnapshotEntities == UNION {Range(x.doc.entities) : x \in snapshots}
LiveEntities == Range(files[ENTITY_REGISTRY].doc.entities)
ComparedFields ==
    {"platform", "device_id", "config_entry_id", "original_name", "disabled_by"}
IdsOf(S) == {e.entity_id : e \in S}

C27_AbsentFieldDiffersFromPresent ==
    pc = "compared" =>
       \A b \in SnapshotEntities, c \in LiveEntities :
          (/\ b.entity_id = c.entity_id
           /\ \E f \in ComparedFields : (b[f] = ABSENT) # (c[f] = ABSENT))
             => <<b, c>> \in report.modified

-----------------------------------------------------------------------------
(* Claims about the suffix collision detector, checked under SpecSuffix.   *)

\* the triple find_suffix_entities returned for entity id eid, if any
Flagged(eid) == \E i \in 1..Len(report) : report[i][1] = eid
BaseOf(eid) == [stem |-> eid.stem, suf |-> <<>>]
RegistryIds == {RegistryEntities[i].entity_id : i \in 1..Len(RegistryEntities)}

\* the number the digits of a suffix denote
RECURSIVE SuffixValue(_)
SuffixValue(suf) ==
    IF suf = <<>> THEN 0
    ELSE 10 * SuffixValue(SubSeq(suf, 1, Len(suf) - 1)) + suf[Len(suf)]

\* C15 as stated: an id that ends in an underscore and digits is flagged if
\* and only if the id without them is not in the registry, and the triple
\* carries that id.
C15_SuffixedIdFlaggedIffBaseAbsent ==
    pc = "found" =>
       \A eid \in RegistryIds :
          eid.suf # <<>> =>
             /\ Flagged(eid) <=> BaseOf(eid) \notin RegistryIds
             /\ \A i \in 1..Len(report) : report[i][1] = eid => report[i][2] = BaseOf(eid)

\* C15 amended: the same for the ids whose digits are one digit from 2 to 9
\* or two or more digits; no other id is flagged.
C15_MatchingIdFlaggedIffBaseAbsent ==
    pc = "found" =>
       \A eid \in RegistryIds :
          /\ (Len(eid.suf) >= 2 \/ (Len(eid.suf) = 1 /\ eid.suf[1] >= 2))
                => (Flagged(eid) <=> BaseOf(eid) \notin RegistryIds)
          /\ (Len(eid.suf) = 0 \/ (Len(eid.suf) = 1 /\ eid.suf[1] < 2)) => ~Flagged(eid)
          /\ \A i \in 1..Len(report) : report[i][1] = eid => report[i][2] = BaseOf(eid)

\* C15 witness: in a registry of sensor.power and sensor.temp_2 the one
\* candidate is sensor.temp_2, whose base id is not in the registry
C15_Witness ==
    /\ pc = "found"
    /\ EntityId("sensor.power", <<>>) \in RegistryIds
    /\ Flagged(EntityId("sensor.temp", <<2>>))
    /\ Len(report) = 1

\* C16: every flagged id ends in digits that denote 2 or more; an id whose
\* digits denote 0 or 1, however spelled, is not flagged.
C16_FlaggedSuffixDenotesTwoOrMore ==
    pc = "found" =>
       \A eid \in RegistryIds :
          /\ Flagged(eid) => (eid.suf # <<>> /\ SuffixValue(eid.suf) >= 2)
          /\ (eid.suf # <<>> /\ SuffixValue(eid.suf) \in {0, 1}) => ~Flagged(eid)

-----------------------------------------------------------------------------
(* Claims about the selection parser, checked under SpecSelect.            *)

\* the input with surrounding blanks cut off and capitals made small
SelectionWord == lower(strip(local.selection))

\* the input with every blank taken out
SelectionDense == SelectSeq(SelectionWord, LAMBDA c : c # " ")

IsNumeral(text) == text # <<>> /\ \A i \in 1..Len(text) : text[i] \in DigitChars

\* the tokens: the stretches of the input between commas
SelectionTokens ==
    {SubSeq(SelectionDense, ab[1], ab[2]) :
        ab \in {x \in (1..Len(SelectionDense)) \X (1..Len(SelectionDense)) :
                  /\ x[1] <= x[2]
                  /\ (x[1] = 1 \/ SelectionDense[x[1] - 1] = ",")
                  /\ (x[2] = Len(SelectionDense) \/ SelectionDense[x[2] + 1] = ",")
                  /\ \A k \in x[1]..x[2] : SelectionDense[k] # ","}}

\* token names i: it is the numeral of i, or a range start-end around i
TokenNames(token, i) ==
    \/ IsNumeral(token) /\ DecimalValue(token) = i
    \/ \E k \in 1..Len(token) :
          /\ token[k] = "-"
          /\ IsNumeral(SubSeq(token, 1, k - 1))
          /\ IsNumeral(SubSeq(token, k + 1, Len(token)))
          /\ DecimalValue(SubSeq(token, 1, k - 1)) <= i
          /\ i <= DecimalValue(SubSeq(token, k + 1, Len(token)))

-----------------------------------------------------------------------------
(* Claims about the retention purger, checked under SpecPurge.             *)

\* a file named like a snapshot: "<anything>.backup.<anything>"
NamedLikeSnapshot(f) == f.name.ending \in {"backup.stamp", "backup.text"}

\* a file last modified more than the retention window before now
OlderThanRetention(f) == now - f.mtime > BACKUP_RETENTION_DAYS * 86400 * TicksPerSecond

-----------------------------------------------------------------------------
(* Claims about the size check, checked under SpecWarn.                    *)

\* the entity count of the live registry; a missing registry counts as none
LiveCount == IF local.exists THEN local.entities ELSE 0

\* C32: the size warning is printed exactly when the snapshot's entity count
\* and the live registry's differ by more than half the live count.
C32_WarnsIffDifferenceExceedsHalf ==
    pc = "warned" =>
       LET diff == IF local.backup_entity_count >= LiveCount
                   THEN local.backup_entity_count - LiveCount
                   ELSE LiveCount - local.backup_entity_count
       IN  report <=> (2 * diff > LiveCount)

====
